---- MODULE Spec2Model ----
(***************************************************************************)
(* langtools: the trigger DFSA, the lexer definition, the source reader    *)
(* over a string source and the lexer driver (lex_next and the iterator    *)
(* next), as state machines over small alphabets.                          *)
(*                                                                         *)
(* Characters are the strings "a", "b", "c", "CR" ('\r') and "LF" ('\n');  *)
(* a Rust String is a sequence of characters.  Option and Result values    *)
(* are records: None / Some(v), Ok(v) / Err(e).  State ids are 0-based as  *)
(* in the source, so state id i is states[i + 1].                          *)
(***************************************************************************)
EXTENDS Integers, Sequences, FiniteSets, TLC

VARIABLES
    lexer,            \* Lexer { trigger_dfsa, error_handler }
    source_reader,    \* SourceReader { source: SourceString, location, buffer }; None before lex()
    message_context,  \* MessageContext { messages }
    eaten,            \* history: every character SourceReader::eat_next yielded, with the location before it
    log,              \* history: every pop_buffer / clear_buffer / emit of the driver, in order
    last,             \* the call made last and what it returned
    phase,            \* "build" (lexer under construction), "lex" (driver bound to a reader), "panicked";
                      \* "reader" / "dfsa" / "executor" / "parser" when a SourceReader / a DFSA /
                      \* a DFSAExecutor / a TokenReader with parsers is used on its own
    the_dfsa,         \* a DFSA { states, start_id } used on its own
    the_executor,     \* DFSAExecutor { start_id, current_id } over the_dfsa; None before DFSAExecutor::new
    the_builder,      \* a ParserTokenBuilder / ParserSequentialBuilder / ParserChoiceBuilder; None when there is none
    the_token_reader  \* TokenReader { tokens, offset, iter }; None when no token reader exists

vars == <<lexer, source_reader, message_context, eaten, log, last, phase, the_dfsa,
          the_executor, the_token_reader, the_builder>>

---------------------------------------------------------------------------
(* Bounds and input sets *)

MaxLen == 2

MaxTriggers == 3

None == [is_some |-> FALSE]

Some(v) == [is_some |-> TRUE, value |-> v]

Ok(v) == [ok |-> TRUE, value |-> v]

Err(e) == [ok |-> FALSE, err |-> e]

Unit == "()"

\* Then(value), with value computed once: a Rust `let` binding.
Bind(value, Then(_)) == CHOOSE y \in {Then(v) : v \in {value}} : TRUE

SourceChars == {"a", "b", "CR"}

RECURSIVE SeqsUpTo(_, _)
SeqsUpTo(S, n) ==
    IF n = 0 THEN {<<>>}
    ELSE LET shorter == SeqsUpTo(S, n - 1)
         IN  shorter \cup {Append(s, x) : s \in {t \in shorter : Len(t) = n - 1}, x \in S}

ScenarioInputs ==
    { <<"a", "b", "a">>,
      <<"a", "b", "c">>,
      <<"a", "CR", "a", "b">>,
      <<"a", "b", "a", "a">>,
      <<"a", "b", "a", "c", "a", "b", "c", "a", "c">>,
      <<"a", "b", "b", "b", "a", "c", "a", "b", "c", "a", "c">> }

Inputs == SeqsUpTo(SourceChars, MaxLen) \cup ScenarioInputs

\* Trigger callbacks: |_| Some(kind), the closure that eats following 'b'
\* characters and returns Some(kind), and |_| None.
Callback(mode, kind) == [mode |-> mode, kind |-> kind]

TriggerPool ==
    { <<<<"a">>, Callback("kind", "A")>>,
      <<<<"a">>, Callback("none", "A")>>,
      <<<<"a", "b">>, Callback("kind", "AB")>>,
      <<<<"a", "b">>, Callback("eat_b", "AB")>>,
      <<<<"a", "c">>, Callback("kind", "AC")>>,
      <<<<"a", "b", "c">>, Callback("kind", "ABC")>>,
      <<<<"LF", "a">>, Callback("kind", "NLA")>> }

ErrorHandlers == {"eat_two"}

---------------------------------------------------------------------------
(* DFSA<char, LexerTriggerAction> *)

NoStartId == [kind |-> "NoStartId"]

OutOfRangeId(id) == [kind |-> "OutOfRangeId", id |-> id]

StateHasNoAction(id) == [kind |-> "StateHasNoAction", id |-> id]

TransitionAlreadyExists == [kind |-> "TransitionAlreadyExists"]

NoSuchTransition == [kind |-> "NoSuchTransition"]

EmptyMap == [e \in {} |-> 0]

DFSAState_new == [action |-> None, transitions |-> EmptyMap]

DFSAState_new_with_action(action) == [action |-> Some(action), transitions |-> EmptyMap]

DFSA_new == [states |-> <<>>, start_id |-> None]

add_state(dfsa) ==
    [dfsa |-> [dfsa EXCEPT !.states = Append(@, DFSAState_new)], id |-> Len(dfsa.states)]

add_state_with_action(dfsa, action) ==
    [dfsa |-> [dfsa EXCEPT !.states = Append(@, DFSAState_new_with_action(action))],
     id |-> Len(dfsa.states)]

is_id_in_bounds(dfsa, id) == id < Len(dfsa.states)

try_get_state(dfsa, id) ==
    IF id < Len(dfsa.states) THEN Ok(dfsa.states[id + 1]) ELSE Err(OutOfRangeId(id))

\* A mutation of add_transition: a second insertion for the same state and
\* element is accepted.
add_transition_silent(dfsa, from_id, on_element, to_id) ==
    IF ~is_id_in_bounds(dfsa, to_id) THEN [dfsa |-> dfsa, result |-> Err(OutOfRangeId(to_id))]
    ELSE IF ~try_get_state(dfsa, from_id).ok
         THEN [dfsa |-> dfsa, result |-> Err(OutOfRangeId(from_id))]
    ELSE [dfsa |-> [dfsa EXCEPT !.states[from_id + 1].transitions =
                                   (on_element :> to_id) @@ @],
          result |-> Ok(Unit)]

\* A mutation of add_transition: the source state is looked up first.
add_transition_from_first(dfsa, from_id, on_element, to_id) ==
    IF ~try_get_state(dfsa, from_id).ok
    THEN [dfsa |-> dfsa, result |-> Err(OutOfRangeId(from_id))]
    ELSE IF ~is_id_in_bounds(dfsa, to_id)
         THEN [dfsa |-> dfsa, result |-> Err(OutOfRangeId(to_id))]
    ELSE LET old == dfsa.states[from_id + 1].transitions
         IN  [dfsa |-> [dfsa EXCEPT !.states[from_id + 1].transitions =
                                        (on_element :> to_id) @@ old],
              result |-> IF on_element \in DOMAIN old
                         THEN Err(TransitionAlreadyExists) ELSE Ok(Unit)]

\* HashMap::insert stores the new destination also when the key was present.
add_transition(dfsa, from_id, on_element, to_id) ==
    IF ~is_id_in_bounds(dfsa, to_id) THEN [dfsa |-> dfsa, result |-> Err(OutOfRangeId(to_id))]
    ELSE IF ~try_get_state(dfsa, from_id).ok
         THEN [dfsa |-> dfsa, result |-> Err(OutOfRangeId(from_id))]
    ELSE LET old == dfsa.states[from_id + 1].transitions
         IN  [dfsa |-> [dfsa EXCEPT !.states[from_id + 1].transitions =
                                        (on_element :> to_id) @@ old],
              result |-> IF on_element \in DOMAIN old
                         THEN Err(TransitionAlreadyExists) ELSE Ok(Unit)]

try_get_start_id(dfsa) ==
    IF dfsa.start_id.is_some THEN Ok(dfsa.start_id.value) ELSE Err(NoStartId)

set_start_id(dfsa, id) ==
    IF is_id_in_bounds(dfsa, id)
    THEN [dfsa |-> [dfsa EXCEPT !.start_id = Some(id)], result |-> Ok(Unit)]
    ELSE [dfsa |-> dfsa, result |-> Err(OutOfRangeId(id))]

try_get_state_action(dfsa, id) ==
    LET s == try_get_state(dfsa, id)
    IN  IF ~s.ok THEN s
        ELSE IF s.value.action.is_some THEN Ok(s.value.action.value)
        ELSE Err(StateHasNoAction(id))

set_state_action(dfsa, id, action) ==
    IF ~try_get_state(dfsa, id).ok THEN [dfsa |-> dfsa, result |-> Err(OutOfRangeId(id))]
    ELSE [dfsa |-> [dfsa EXCEPT !.states[id + 1].action = action], result |-> Ok(Unit)]

try_get_transition(dfsa, from_id, on_element) ==
    LET s == try_get_state(dfsa, from_id)
    IN  IF ~s.ok THEN s
        ELSE IF on_element \in DOMAIN s.value.transitions
             THEN Ok(s.value.transitions[on_element])
        ELSE Err(NoSuchTransition)

---------------------------------------------------------------------------
(* DFSAExecutor *)

DFSAExecutor_new(dfsa) ==
    LET s == try_get_start_id(dfsa)
    IN  IF s.ok THEN Ok([start_id |-> s.value, current_id |-> s.value]) ELSE s

reset(executor) == [executor EXCEPT !.current_id = executor.start_id]

\* A mutation of step: a failed step moves the cursor back to the start state.
step_failure_resets(dfsa, executor, element) ==
    LET t == try_get_transition(dfsa, executor.current_id, element)
    IN  IF t.ok THEN [executor |-> [executor EXCEPT !.current_id = t.value], result |-> Ok(Unit)]
        ELSE [executor |-> reset(executor), result |-> t]

step(dfsa, executor, element) ==
    LET t == try_get_transition(dfsa, executor.current_id, element)
    IN  IF t.ok THEN [executor |-> [executor EXCEPT !.current_id = t.value], result |-> Ok(Unit)]
        ELSE [executor |-> executor, result |-> t]

current_action(dfsa, executor) ==
    LET a == try_get_state_action(dfsa, executor.current_id)
    IN  IF a.ok THEN Some(a.value) ELSE None

is_at_start(executor) == executor.start_id = executor.current_id

---------------------------------------------------------------------------
(* Lexer *)

DuplicateTrigger(prefix) == [kind |-> "DuplicateTrigger", prefix |-> prefix]

Lexer_new ==
    LET a == add_state(DFSA_new)
    IN  [trigger_dfsa |-> set_start_id(a.dfsa, a.id).dfsa, error_handler |-> None]

\* The for loop of add_trigger over prefix[i..]: follow the existing edge or
\* add a state and an edge to it.
RECURSIVE add_trigger_walk(_, _, _, _)
add_trigger_walk(dfsa, current_id, prefix, i) ==
    IF i > Len(prefix) THEN [dfsa |-> dfsa, result |-> Ok(current_id)]
    ELSE LET t == try_get_transition(dfsa, current_id, prefix[i])
         IN  IF t.ok THEN add_trigger_walk(dfsa, t.value, prefix, i + 1)
             ELSE LET a == add_state(dfsa)
                      tr == add_transition(a.dfsa, current_id, prefix[i], a.id)
                  IN  IF tr.result.ok THEN add_trigger_walk(tr.dfsa, a.id, prefix, i + 1)
                      ELSE [dfsa |-> tr.dfsa, result |-> tr.result]

\* A mutation of add_trigger: the action of the state reached is set without
\* looking for an action that is already there.
add_trigger_unchecked(lx, prefix, callback) ==
    LET s == try_get_start_id(lx.trigger_dfsa)
    IN  IF ~s.ok THEN [lexer |-> lx, result |-> s]
        ELSE LET w == add_trigger_walk(lx.trigger_dfsa, s.value, prefix, 1)
             IN  IF ~w.result.ok
                 THEN [lexer |-> [lx EXCEPT !.trigger_dfsa = w.dfsa], result |-> w.result]
                 ELSE LET sa == set_state_action(w.dfsa, w.result.value, Some(callback))
                      IN  [lexer |-> [lx EXCEPT !.trigger_dfsa = sa.dfsa], result |-> sa.result]

add_trigger(lx, prefix, callback) ==
    LET s == try_get_start_id(lx.trigger_dfsa)
    IN  IF ~s.ok THEN [lexer |-> lx, result |-> s]
        ELSE LET w == add_trigger_walk(lx.trigger_dfsa, s.value, prefix, 1)
             IN  IF ~w.result.ok
                 THEN [lexer |-> [lx EXCEPT !.trigger_dfsa = w.dfsa], result |-> w.result]
                 ELSE IF try_get_state_action(w.dfsa, w.result.value).ok
                 THEN [lexer |-> [lx EXCEPT !.trigger_dfsa = w.dfsa],
                       result |-> Err(DuplicateTrigger(prefix))]
                 ELSE LET sa == set_state_action(w.dfsa, w.result.value, Some(callback))
                      IN  [lexer |-> [lx EXCEPT !.trigger_dfsa = sa.dfsa], result |-> sa.result]

set_error_handler(lx, error_handler) == [lx EXCEPT !.error_handler = Some(error_handler)]

\* A mutation of get_error_handler: the default handler eats two characters.
get_error_handler_two(lx) ==
    IF lx.error_handler.is_some THEN lx.error_handler.value ELSE "eat_two"

\* The default handler is the closure that calls eat_next once.
get_error_handler(lx) ==
    IF lx.error_handler.is_some THEN lx.error_handler.value ELSE "eat_one"

\* The number of triggers registered in the trigger DFSA.
TriggerCount(lx) ==
    Cardinality({i \in 1..Len(lx.trigger_dfsa.states) : lx.trigger_dfsa.states[i].action.is_some})

---------------------------------------------------------------------------
(* SourceString: iter counts the characters already taken from data *)

NoMoreChars == [kind |-> "NoMoreChars"]

BufferingAlreadyEnabled == [kind |-> "BufferingAlreadyEnabled"]

BufferingAlreadyDisabled == [kind |-> "BufferingAlreadyDisabled"]

BufferingNeedsToBeEnabled == [kind |-> "BufferingNeedsToBeEnabled"]

SourceString_new(data) == [data |-> data, iter |-> 0, offset |-> 0]

SourceString_peek_next(s) ==
    IF s.iter < Len(s.data) THEN Ok(s.data[s.iter + 1]) ELSE Err(NoMoreChars)

\* offset is incremented before the iterator is asked, so also when it is exhausted.
SourceString_eat_next(s) ==
    [source |-> [s EXCEPT !.offset = @ + 1,
                          !.iter = IF @ < Len(s.data) THEN @ + 1 ELSE @],
     result |-> SourceString_peek_next(s)]

---------------------------------------------------------------------------
(* SourceReader *)

OFFSET_INITIAL == 0

LINE_INITIAL == 1

COLUMN_INITIAL == 1

SourceReader_new(source) ==
    [source |-> source,
     location |-> [offset |-> OFFSET_INITIAL, line |-> LINE_INITIAL, column |-> COLUMN_INITIAL],
     buffer |-> None]

is_buffering_enabled(rd) == rd.buffer.is_some

enable_buffering(rd) ==
    IF rd.buffer.is_some THEN [rd |-> rd, result |-> Err(BufferingAlreadyEnabled)]
    ELSE [rd |-> [rd EXCEPT !.buffer = Some(<<>>)], result |-> Ok(Unit)]

\* A mutation of disable_buffering: disabling twice is accepted.
disable_buffering_twice(rd) == [rd |-> [rd EXCEPT !.buffer = None], result |-> Ok(Unit)]

disable_buffering(rd) ==
    IF ~rd.buffer.is_some THEN [rd |-> rd, result |-> Err(BufferingAlreadyDisabled)]
    ELSE [rd |-> [rd EXCEPT !.buffer = None], result |-> Ok(Unit)]

is_buffer_empty(rd) == IF rd.buffer.is_some THEN rd.buffer.value = <<>> ELSE TRUE

clear_buffer(rd) ==
    IF rd.buffer.is_some THEN [rd |-> [rd EXCEPT !.buffer = Some(<<>>)], result |-> Ok(Unit)]
    ELSE [rd |-> rd, result |-> Err(BufferingNeedsToBeEnabled)]

\* Option::replace stores the empty string also when the buffer was None.
pop_buffer(rd) ==
    [rd |-> [rd EXCEPT !.buffer = Some(<<>>)],
     result |-> IF rd.buffer.is_some THEN Ok(rd.buffer.value)
                ELSE Err(BufferingNeedsToBeEnabled)]

\* A mutation of eat_next_helper_fold_newlines: only CR LF is folded into one
\* newline, a CR before a CR is a newline of its own.
eat_next_helper_fold_newlines_dos_only(rd) ==
    LET e1 == SourceString_eat_next(rd.source)
        rd1 == [rd EXCEPT !.source = e1.source]
    IN  IF ~e1.result.ok THEN [rd |-> rd1, result |-> e1.result]
        ELSE IF e1.result.value = "CR"
        THEN LET p == SourceString_peek_next(rd1.source)
             IN  IF p.ok /\ p.value = "LF"
                 THEN LET e2 == SourceString_eat_next(rd1.source)
                      IN  [rd |-> [rd1 EXCEPT !.source = e2.source],
                           result |-> IF e2.result.ok THEN Ok("LF") ELSE e2.result]
                 ELSE IF p.ok THEN [rd |-> rd1, result |-> Ok("LF")]
                 ELSE [rd |-> rd1, result |-> p]
        ELSE [rd |-> rd1, result |-> e1.result]

eat_next_helper_fold_newlines(rd) ==
    Bind(SourceString_eat_next(rd.source), LAMBDA e1 :
    Bind([rd EXCEPT !.source = e1.source], LAMBDA rd1 :
        IF ~e1.result.ok THEN [rd |-> rd1, result |-> e1.result]
        ELSE IF e1.result.value = "CR"
        THEN LET p == SourceString_peek_next(rd1.source)
             IN  IF p.ok /\ p.value \in {"CR", "LF"}
                 THEN LET e2 == SourceString_eat_next(rd1.source)
                      IN  [rd |-> [rd1 EXCEPT !.source = e2.source],
                           result |-> IF e2.result.ok THEN Ok("LF") ELSE e2.result]
                 ELSE IF p.ok THEN [rd |-> rd1, result |-> Ok("LF")]
                 ELSE [rd |-> rd1, result |-> p]
        ELSE [rd |-> rd1, result |-> e1.result]))

\* A mutation of update_location: the column is not reset by a newline.
update_location_no_reset(f) ==
    IF ~f.result.ok THEN f
    ELSE [rd |-> [f.rd EXCEPT
                    !.location = [offset |-> f.rd.source.offset,
                                  line |-> IF f.result.value = "LF" THEN @.line + 1 ELSE @.line,
                                  column |-> @.column + 1]],
          result |-> f.result]

\* eat_next_helper_update_location after `self.eat_next_helper_fold_newlines()?`
\* returned f.  The assert!(result != '\r') cannot fire: the fold never
\* returns '\r'.
update_location(f) ==
    IF ~f.result.ok THEN f
    ELSE [rd |-> [f.rd EXCEPT
                    !.location = [offset |-> f.rd.source.offset,
                                  line |-> IF f.result.value = "LF" THEN @.line + 1 ELSE @.line,
                                  column |-> IF f.result.value = "LF" THEN COLUMN_INITIAL
                                             ELSE @.column + 1]],
          result |-> f.result]

eat_next_helper_update_location(rd) ==
    Bind(eat_next_helper_fold_newlines(rd), LAMBDA f : update_location(f))

\* A mutation of push_buffer: nothing is appended to the buffer.
push_buffer_none(u) == u

\* eat_next_helper_push_buffer after `self.eat_next_helper_update_location()?`
\* returned u.
push_buffer(u) ==
    IF ~u.result.ok THEN u
    ELSE IF u.rd.buffer.is_some
         THEN [rd |-> [u.rd EXCEPT !.buffer = Some(Append(@.value, u.result.value))],
               result |-> u.result]
    ELSE u

eat_next_helper_push_buffer(rd) ==
    Bind(eat_next_helper_update_location(rd), LAMBDA u : push_buffer(u))

\* A mutation of SourceReader_peek_next: the character is reported as stored.
SourceReader_peek_next_raw(rd) == SourceString_peek_next(rd.source)

SourceReader_peek_next(rd) ==
    LET result == SourceString_peek_next(rd.source)
    IN  IF result.ok /\ result.value = "CR" THEN Ok("LF") ELSE result

\* A world w is what one lexer driver holds and observes: the reader (with its
\* source), the message context and the two histories.
World(rd, mc, e, l) == [source_reader |-> rd, message_context |-> mc, eaten |-> e, log |-> l]

\* The world after the reader's eat_next returned r: a yielded character is
\* recorded in eaten with the location the reader had before it.
record_eaten(w, r) ==
    [w |-> [w EXCEPT !.source_reader = r.rd,
                     !.eaten = IF r.result.ok
                               THEN Append(@, [chr |-> r.result.value,
                                               before |-> w.source_reader.location])
                               ELSE @],
     result |-> r.result]

\* ReadSource::eat_next of the reader.
SourceReader_eat_next(w) ==
    Bind(eat_next_helper_push_buffer(w.source_reader), LAMBDA r : record_eaten(w, r))

---------------------------------------------------------------------------
(* LexerContext: lex_next and Iterator::next *)

UnexpectedCharacter(chr) == [kind |-> "UnexpectedCharacter", chr |-> chr]

UnexpectedEndOfSource == [kind |-> "UnexpectedEndOfSource"]

LexingError_SourcingError(e) == [kind |-> "SourcingError", inner |-> e]

LexingError_DFSAError(e) == [kind |-> "DFSAError", inner |-> e]

\* The characters of the source not yet taken from the string.
Rest(w) ==
    SubSeq(w.source_reader.source.data, w.source_reader.source.iter + 1,
           Len(w.source_reader.source.data))

\* while source_reader.peek_next() == Ok('b') { let _ = source_reader.eat_next(); }
RECURSIVE eat_while_b(_)
eat_while_b(w) ==
    IF SourceReader_peek_next(w.source_reader) = Ok("b")
    THEN Bind(SourceReader_eat_next(w).w, LAMBDA w1 : eat_while_b(w1))
    ELSE w

\* (trigger_action.callback)(self.source_reader)
run_callback(callback, w) ==
    IF callback.mode = "kind" THEN [w |-> w, ret |-> Some(callback.kind)]
    ELSE IF callback.mode = "eat_b" THEN [w |-> eat_while_b(w), ret |-> Some(callback.kind)]
    ELSE [w |-> w, ret |-> None]

\* (self.lexer.get_error_handler())(self.source_reader); results of eat_next are dropped.
run_error_handler(handler, w) ==
    IF handler = "eat_one" THEN SourceReader_eat_next(w).w
    ELSE Bind(SourceReader_eat_next(w).w, LAMBDA w1 : SourceReader_eat_next(w1).w)

\* A mutation of remember_trigger: the first accepting state wins.
remember_trigger_first(current_trigger, last_trigger) ==
    IF last_trigger.is_some THEN last_trigger ELSE current_trigger

\* if current_trigger.is_some() { last_trigger = current_trigger; }
remember_trigger(current_trigger, last_trigger) ==
    IF current_trigger.is_some THEN current_trigger ELSE last_trigger

\* The loop of lex_next_trigger_action from the executor state ex.
RECURSIVE lex_next_trigger_action_loop(_, _, _, _)

\* `self.source_reader.eat_next()?` returned e after the executor stepped to
\* ex: the next iteration, or the error leaves the function.
loop_eat(lx, ex, last_trigger, e) ==
    IF e.result.ok THEN lex_next_trigger_action_loop(lx, e.w, ex, last_trigger)
    ELSE [w |-> e.w, executor |-> ex, last_trigger |-> last_trigger,
          error |-> Some(LexingError_SourcingError(e.result.err))]

\* The second half of one iteration: peek_next returned p; step and eat, or
\* break.
loop_peek(lx, w, ex, last_trigger, p) ==
    IF ~p.ok THEN [w |-> w, executor |-> ex, last_trigger |-> last_trigger, error |-> None]
    ELSE Bind(step(lx.trigger_dfsa, ex, p.value), LAMBDA st :
              IF st.result.ok
              THEN Bind(SourceReader_eat_next(w), LAMBDA e :
                        loop_eat(lx, st.executor, last_trigger, e))
              ELSE [w |-> w, executor |-> ex, last_trigger |-> last_trigger, error |-> None])

lex_next_trigger_action_loop(lx, w, ex, last_trigger) ==
    Bind(remember_trigger(current_action(lx.trigger_dfsa, ex), last_trigger), LAMBDA t :
         Bind(SourceReader_peek_next(w.source_reader), LAMBDA p :
              loop_peek(lx, w, ex, t, p)))

\* The decision after the loop ended as l; first_char was peeked before it.
lex_next_trigger_action_decide(first_char, l) ==
    IF l.error.is_some THEN [w |-> l.w, result |-> Err(l.error.value)]
    ELSE IF l.last_trigger.is_some THEN [w |-> l.w, result |-> Ok(l.last_trigger.value)]
    ELSE IF first_char.ok
         THEN IF is_at_start(l.executor)
              THEN [w |-> l.w, result |-> Err(UnexpectedCharacter(first_char.value))]
              ELSE [w |-> l.w, result |-> Err(UnexpectedEndOfSource)]
    ELSE [w |-> l.w, result |-> Err(UnexpectedEndOfSource)]

lex_next_trigger_action(lx, w) ==
    LET x == DFSAExecutor_new(lx.trigger_dfsa)
    IN  IF ~x.ok THEN [w |-> w, result |-> Err(LexingError_DFSAError(x.err))]
        ELSE Bind(lex_next_trigger_action_loop(lx, w, x.value, None), LAMBDA l :
                  lex_next_trigger_action_decide(SourceReader_peek_next(w.source_reader), l))

Logged(w, entry) == [w EXCEPT !.log = Append(@, entry)]

\* What the last match attempt of a lex_next call started from and consumed:
\* the unread characters of the string when it started, the characters the
\* reader yielded during it and the characters taken from the string.
Attempt(w_before, w_after) ==
    [rest |-> Rest(w_before),
     consumed |-> Len(w_after.eaten) - Len(w_before.eaten),
     taken |-> w_after.source_reader.source.iter - w_before.source_reader.source.iter]

\* Token::new_from_location(location, text, kind).
new_from_location(location, text, kind) == [location |-> location, text |-> text, kind |-> kind]

\* A mutation of lex_next_emit: the location is read when the token is built.
lex_next_emit_late_location(w0, t, c) ==
    LET pb == pop_buffer(c.w.source_reader)
        token == new_from_location(c.w.source_reader.location, pb.result.value, c.ret.value)
    IN  [w |-> Logged([c.w EXCEPT !.source_reader = pb.rd],
                      [kind |-> "token", token |-> token, callback |-> t.result.value,
                       eaten_end |-> Len(c.w.eaten)]),
         panicked |-> FALSE, result |-> Ok(token), attempt |-> Attempt(w0, t.w)]

\* A mutation of lex_next_emit: the text is the buffer as it was when the
\* trigger was selected, before its callback ran.
lex_next_emit_prefix_only(w0, t, c) ==
    LET location_first == w0.source_reader.location
        pb == pop_buffer(c.w.source_reader)
        token == new_from_location(location_first, t.w.source_reader.buffer.value, c.ret.value)
    IN  [w |-> Logged([c.w EXCEPT !.source_reader = pb.rd],
                      [kind |-> "token", token |-> token, callback |-> t.result.value,
                       eaten_end |-> Len(c.w.eaten)]),
         panicked |-> FALSE, result |-> Ok(token), attempt |-> Attempt(w0, t.w)]

\* The Some(token_kind) branch of lex_next: the token is built from the
\* location saved on entry and the popped buffer.  w0 is the world on entry,
\* t the selected trigger, c the outcome of its callback.
lex_next_emit(w0, t, c) ==
    LET location_first == w0.source_reader.location
    IN  Bind(c, LAMBDA cr :
        Bind(pop_buffer(cr.w.source_reader), LAMBDA pb :
        Bind(new_from_location(location_first, pb.result.value, cr.ret.value), LAMBDA token :
             [w |-> Logged([cr.w EXCEPT !.source_reader = pb.rd],
                           [kind |-> "token", token |-> token, callback |-> t.result.value,
                            eaten_end |-> Len(cr.w.eaten)]),
              panicked |-> FALSE, result |-> Ok(token), attempt |-> Attempt(w0, t.w)])))

\* A mutation of lex_next_skip: the buffer is not cleared.
lex_next_skip_keep(c) ==
    Logged(c.w, [kind |-> "skipped", text |-> c.w.source_reader.buffer.value,
                 eaten_end |-> Len(c.w.eaten), buffer_after |-> c.w.source_reader.buffer])

\* The None branch of lex_next up to the recursive call: clear_buffer.
lex_next_skip(c) ==
    LET cb == clear_buffer(c.w.source_reader)
    IN  Logged([c.w EXCEPT !.source_reader = cb.rd],
               [kind |-> "skipped", text |-> c.w.source_reader.buffer.value,
                eaten_end |-> Len(c.w.eaten), buffer_after |-> cb.rd.buffer])

RECURSIVE lex_next(_, _)

\* The callback of the selected trigger t returned c: emit the token, or skip
\* and lex another.
lex_next_callback(lx, w0, t, c) ==
    IF c.ret.is_some THEN lex_next_emit(w0, t, c)
    ELSE lex_next(lx, lex_next_skip(c))

\* lex_next after `self.lex_next_trigger_action()?` returned t; w0 is the
\* world on entry.
lex_next_trigger(lx, w0, t) ==
    IF ~t.result.ok
    THEN [w |-> t.w, panicked |-> FALSE, result |-> t.result, attempt |-> Attempt(w0, t.w)]
    ELSE lex_next_callback(lx, w0, t,
             run_callback(t.result.value,
                          Logged(t.w, [kind |-> "callback", callback |-> t.result.value,
                                       buffer |-> t.w.source_reader.buffer.value,
                                       rest |-> Rest(w0), eaten_at |-> Len(t.w.eaten)])))

lex_next(lx, w) ==
    IF ~(is_buffering_enabled(w.source_reader) /\ is_buffer_empty(w.source_reader))
    THEN [w |-> w, panicked |-> TRUE, result |-> Err(UnexpectedEndOfSource),
          attempt |-> Attempt(w, w)]
    ELSE Bind([w |-> w, t |-> lex_next_trigger_action(lx, w)],
              LAMBDA i : lex_next_trigger(lx, i.w, i.t))

\* MessageContext::emit of Message::new_location(location, severity, ..).
emit(mc, location, severity, description) ==
    [mc EXCEPT !.messages = Append(@, [location |-> location, severity |-> severity,
                                      description |-> description])]

RECURSIVE next(_, _)

\* The UnexpectedCharacter arm after the error handler ran from w1 to w2:
\* `self.source_reader.clear_buffer().ok()?` and `self.next()`.
next_recovered(lx, r, w1, w2) ==
    Bind(Bind(clear_buffer(w2.source_reader), LAMBDA cb :
              [result |-> cb.result,
               w |-> Logged([w2 EXCEPT !.source_reader = cb.rd],
                            [kind |-> "discarded", text |-> w2.source_reader.buffer.value,
                             buffer_after |-> cb.rd.buffer,
                             raw |-> SubSeq(w1.source_reader.source.data,
                                            w1.source_reader.source.iter + 1,
                                            w2.source_reader.source.iter)])]),
         LAMBDA cleared :
             IF cleared.result.ok THEN next(lx, cleared.w)
             ELSE [w |-> cleared.w, panicked |-> FALSE, result |-> None, ended_by |-> r])

\* The UnexpectedCharacter arm after the diagnostic was emitted (world w1).
next_unexpected_character(lx, r, w1) ==
    next_recovered(lx, r, w1, run_error_handler(get_error_handler(lx), w1))

\* A mutation of next_match: the end of the source is reported as a token of
\* kind EOF instead of None.
next_match_eof_token(lx, location_first, r) ==
    IF r.panicked THEN [w |-> r.w, panicked |-> TRUE, result |-> None, ended_by |-> r]
    ELSE IF r.result.ok
    THEN [w |-> r.w, panicked |-> FALSE, result |-> Some(r.result.value), ended_by |-> r]
    ELSE IF r.result.err = UnexpectedEndOfSource
            \/ r.result.err = LexingError_SourcingError(NoMoreChars)
    THEN [w |-> r.w, panicked |-> FALSE,
          result |-> Some(new_from_location(location_first, <<>>, "EOF")), ended_by |-> r]
    ELSE IF r.result.err.kind = "UnexpectedCharacter"
    THEN next_unexpected_character(lx, r,
             Logged([r.w EXCEPT !.message_context =
                         emit(@, location_first, "Error",
                              <<"unexpected character", r.result.err.chr>>)],
                    [kind |-> "diagnostic", chr |-> r.result.err.chr,
                     location |-> location_first, attempt |-> r.attempt,
                     reader_location |-> r.w.source_reader.location]))
    ELSE [w |-> [r.w EXCEPT !.message_context =
                     emit(@, location_first, "InternalError", <<"internal", r.result.err>>)],
          panicked |-> FALSE, result |-> None, ended_by |-> r]

\* `match self.lex_next()` on the outcome r.
next_match(lx, location_first, r) ==
    IF r.panicked THEN [w |-> r.w, panicked |-> TRUE, result |-> None, ended_by |-> r]
    ELSE IF r.result.ok
    THEN [w |-> r.w, panicked |-> FALSE, result |-> Some(r.result.value), ended_by |-> r]
    ELSE IF r.result.err = UnexpectedEndOfSource
            \/ r.result.err = LexingError_SourcingError(NoMoreChars)
    THEN [w |-> r.w, panicked |-> FALSE, result |-> None, ended_by |-> r]
    ELSE IF r.result.err.kind = "UnexpectedCharacter"
    THEN next_unexpected_character(lx, r,
             Logged([r.w EXCEPT !.message_context =
                         emit(@, location_first, "Error",
                              <<"unexpected character", r.result.err.chr>>)],
                    [kind |-> "diagnostic", chr |-> r.result.err.chr,
                     location |-> location_first, attempt |-> r.attempt,
                     reader_location |-> r.w.source_reader.location]))
    ELSE [w |-> [r.w EXCEPT !.message_context =
                     emit(@, location_first, "InternalError", <<"internal", r.result.err>>)],
          panicked |-> FALSE, result |-> None, ended_by |-> r]

next(lx, w) ==
    Bind(lex_next(lx, w), LAMBDA r : next_match(lx, w.source_reader.location, r))

---------------------------------------------------------------------------
(* The state machine *)

MessageContext_new == [messages |-> <<>>]

Init ==
    /\ lexer = Lexer_new
    /\ source_reader = None
    /\ message_context = MessageContext_new
    /\ eaten = <<>>
    /\ log = <<>>
    /\ last = [op |-> "new"]
    /\ phase = "build"
    /\ the_dfsa = DFSA_new
    /\ the_executor = None
    /\ the_builder = None
    /\ the_token_reader = None

\* lexer.add_trigger(prefix, callback) while the lexer is being defined.
AddTrigger ==
    /\ phase = "build"
    /\ TriggerCount(lexer) < MaxTriggers
    /\ \E t \in TriggerPool :
          LET r == add_trigger(lexer, t[1], t[2])
          IN  /\ lexer' = r.lexer
              /\ last' = [op |-> "add_trigger", prefix |-> t[1], callback |-> t[2],
                          result |-> r.result, before |-> lexer]
    /\ UNCHANGED <<the_builder, source_reader, message_context, eaten, log, phase, the_dfsa, the_executor, the_token_reader>>

\* lexer.set_error_handler(handler).
SetErrorHandler ==
    /\ phase = "build"
    /\ \E h \in ErrorHandlers :
          /\ lexer' = set_error_handler(lexer, h)
          /\ last' = [op |-> "set_error_handler", handler |-> h]
    /\ UNCHANGED <<the_builder, source_reader, message_context, eaten, log, phase, the_dfsa, the_executor, the_token_reader>>

\* SourceString::new(info, data), SourceReader::new(&mut source),
\* MessageContext::new() and lexer.lex(&mut source_reader, &mut message_context).
Lex ==
    /\ phase = "build"
    /\ \E data \in Inputs :
          source_reader' = Some(SourceReader_new(SourceString_new(data)))
    /\ message_context' = MessageContext_new
    /\ last' = [op |-> "lex"]
    /\ phase' = "lex"
    /\ UNCHANGED <<the_builder, lexer, eaten, log, the_dfsa, the_executor, the_token_reader>>

TheWorld == World(source_reader.value, message_context, eaten, log)

Install(w) ==
    /\ source_reader' = Some(w.source_reader)
    /\ message_context' = w.message_context
    /\ eaten' = w.eaten
    /\ log' = w.log

\* source_reader.enable_buffering(), which the user calls before lexing.
EnableBuffering ==
    /\ phase = "lex"
    /\ LET r == enable_buffering(source_reader.value)
       IN  /\ source_reader' = Some(r.rd)
           /\ last' = [op |-> "enable_buffering", result |-> r.result]
    /\ UNCHANGED <<the_builder, lexer, message_context, eaten, log, phase, the_dfsa, the_executor, the_token_reader>>

\* token_source.lex_next().
LexNext ==
    /\ phase = "lex"
    /\ \E r \in {lex_next(lexer, TheWorld)} :
           /\ Install(r.w)
           /\ phase' = IF r.panicked THEN "panicked" ELSE "lex"
           /\ last' = IF r.panicked THEN [op |-> "lex_next", panicked |-> TRUE]
                      ELSE [op |-> "lex_next", panicked |-> FALSE, result |-> r.result,
                            attempt |-> r.attempt]
    /\ UNCHANGED <<the_builder, lexer, the_dfsa, the_executor, the_token_reader>>

\* token_source.next().
IterNext ==
    /\ phase = "lex"
    /\ \E r \in {next(lexer, TheWorld)} :
           /\ Install(r.w)
           /\ phase' = IF r.panicked THEN "panicked" ELSE "lex"
           /\ last' = IF r.panicked THEN [op |-> "next", panicked |-> TRUE]
                      ELSE [op |-> "next", panicked |-> FALSE, result |-> r.result,
                            lex_result |-> r.ended_by.result, attempt |-> r.ended_by.attempt]
    /\ UNCHANGED <<the_builder, lexer, the_dfsa, the_executor, the_token_reader>>

Next ==
    \/ AddTrigger
    \/ SetErrorHandler
    \/ Lex
    \/ EnableBuffering
    \/ LexNext
    \/ IterNext

Spec == Init /\ [][Next]_vars

\* A driver with the default error handler on which, once lexing has begun,
\* only next() is called, and is called again for as long as it has an effect:
\* `for token in lexer.lex(..)` and `while let Some(token) = token_source.next()`.
IterationNext ==
    \/ AddTrigger
    \/ Lex
    \/ EnableBuffering
    \/ IterNext

IterationSpec == Init /\ [][IterationNext]_vars /\ WF_vars(IterNext)

---------------------------------------------------------------------------
(* The source reader used on its own, as the tests of source_reader.rs do *)

MaxFailedEats == 1

ReaderChars == {"a", "CR", "LF"}

\* The three newline conventions: LF, CR LF and CR CR.
NewlineUnits == {<<"LF">>, <<"CR", "LF">>, <<"CR", "CR">>}

\* Every concatenation of at most n newlines.
RECURSIVE NewlineTexts(_)
NewlineTexts(n) ==
    IF n = 0 THEN {<<>>}
    ELSE NewlineTexts(n - 1) \cup {u \o t : u \in NewlineUnits, t \in NewlineTexts(n - 1)}

\* "ab\r\ncd", "abc" and "a\nb\r\nc\r\rd".
ReaderScenarioInputs ==
    { <<"a", "b", "CR", "LF", "c", "d">>,
      <<"a", "b", "c">>,
      <<"a", "LF", "b", "CR", "LF", "c", "CR", "CR", "d">> }

ReaderInputs ==
    SeqsUpTo(ReaderChars, MaxLen + 1) \cup NewlineTexts(MaxLen) \cup ReaderScenarioInputs

\* History kept in log while the reader is used on its own: one entry per
\* failed eat_next, and one entry for the most recent reset of the buffer with
\* the number of characters yielded before it.
FailedEats == Len(SelectSeq(log, LAMBDA e : e.kind = "eat_failed"))

BufferReset(l, at) ==
    Append(SelectSeq(l, LAMBDA e : e.kind # "buffer_reset"),
           [kind |-> "buffer_reset", eaten_at |-> at])

\* SourceString::new(info, data) and SourceReader::new(&mut source).
ReaderInit ==
    /\ lexer = Lexer_new
    /\ \E data \in ReaderInputs :
          source_reader = Some(SourceReader_new(SourceString_new(data)))
    /\ message_context = MessageContext_new
    /\ eaten = <<>>
    /\ log = <<>>
    /\ last = [op |-> "new"]
    /\ phase = "reader"
    /\ the_dfsa = DFSA_new
    /\ the_executor = None
    /\ the_builder = None
    /\ the_token_reader = None

\* source_reader.eat_next().
ReaderEatNext ==
    /\ phase = "reader"
    /\ FailedEats < MaxFailedEats
    /\ \E r \in {SourceReader_eat_next(TheWorld)} :
          /\ source_reader' = Some(r.w.source_reader)
          /\ eaten' = r.w.eaten
          /\ log' = IF r.result.ok THEN log ELSE Append(log, [kind |-> "eat_failed"])
          /\ last' = [op |-> "eat_next", result |-> r.result, before |-> source_reader.value]
    /\ UNCHANGED <<the_builder, lexer, message_context, phase, the_dfsa, the_executor, the_token_reader>>

\* source_reader.peek_next(), twice in a row.
ReaderPeekNext ==
    /\ phase = "reader"
    /\ last' = [op |-> "peek_next", result |-> SourceReader_peek_next(source_reader.value),
                again |-> SourceReader_peek_next(source_reader.value),
                before |-> source_reader.value]
    /\ UNCHANGED <<the_builder, lexer, source_reader, message_context, eaten, log, phase, the_dfsa, the_executor, the_token_reader>>

\* source_reader.enable_buffering().
ReaderEnableBuffering ==
    /\ phase = "reader"
    /\ \E r \in {enable_buffering(source_reader.value)} :
          /\ source_reader' = Some(r.rd)
          /\ log' = IF r.result.ok THEN BufferReset(log, Len(eaten)) ELSE log
          /\ last' = [op |-> "enable_buffering", result |-> r.result,
                      before |-> source_reader.value]
    /\ UNCHANGED <<the_builder, lexer, message_context, eaten, phase, the_dfsa, the_executor, the_token_reader>>

\* source_reader.disable_buffering().
ReaderDisableBuffering ==
    /\ phase = "reader"
    /\ \E r \in {disable_buffering(source_reader.value)} :
          /\ source_reader' = Some(r.rd)
          /\ last' = [op |-> "disable_buffering", result |-> r.result,
                      before |-> source_reader.value]
    /\ UNCHANGED <<the_builder, lexer, message_context, eaten, log, phase, the_dfsa, the_executor, the_token_reader>>

\* source_reader.clear_buffer().
ReaderClearBuffer ==
    /\ phase = "reader"
    /\ \E r \in {clear_buffer(source_reader.value)} :
          /\ source_reader' = Some(r.rd)
          /\ log' = IF r.result.ok THEN BufferReset(log, Len(eaten)) ELSE log
          /\ last' = [op |-> "clear_buffer", result |-> r.result,
                      before |-> source_reader.value]
    /\ UNCHANGED <<the_builder, lexer, message_context, eaten, phase, the_dfsa, the_executor, the_token_reader>>

\* source_reader.pop_buffer(); the buffer is replaced by an empty one whatever
\* the result is.
ReaderPopBuffer ==
    /\ phase = "reader"
    /\ \E r \in {pop_buffer(source_reader.value)} :
          /\ source_reader' = Some(r.rd)
          /\ log' = BufferReset(log, Len(eaten))
          /\ last' = [op |-> "pop_buffer", result |-> r.result,
                      before |-> source_reader.value]
    /\ UNCHANGED <<the_builder, lexer, message_context, eaten, phase, the_dfsa, the_executor, the_token_reader>>

ReaderNext ==
    \/ ReaderEatNext
    \/ ReaderPeekNext
    \/ ReaderEnableBuffering
    \/ ReaderDisableBuffering
    \/ ReaderClearBuffer
    \/ ReaderPopBuffer

ReaderSpec == ReaderInit /\ [][ReaderNext]_vars

---------------------------------------------------------------------------
(* A DFSA used on its own, as the tests of dfsa.rs do *)

MaxStates == 2

DfsaElements == {"a"}

DfsaActions == {"X"}

\* The ids passed to the operations: those of the states and ids out of range.
DfsaIds == 0..MaxStates

\* DFSA::new().
DfsaInit ==
    /\ lexer = Lexer_new
    /\ source_reader = None
    /\ message_context = MessageContext_new
    /\ eaten = <<>>
    /\ log = <<>>
    /\ last = [op |-> "new"]
    /\ phase = "dfsa"
    /\ the_dfsa = DFSA_new
    /\ the_executor = None
    /\ the_builder = None
    /\ the_token_reader = None

\* dfsa.add_state().
DfsaAddState ==
    /\ phase = "dfsa"
    /\ Len(the_dfsa.states) < MaxStates
    /\ \E r \in {add_state(the_dfsa)} :
          /\ the_dfsa' = r.dfsa
          /\ last' = [op |-> "add_state", id |-> r.id, before |-> the_dfsa]
    /\ UNCHANGED <<the_builder, lexer, source_reader, message_context, eaten, log, phase, the_executor, the_token_reader>>

\* dfsa.add_state_with_action(action).
DfsaAddStateWithAction ==
    /\ phase = "dfsa"
    /\ Len(the_dfsa.states) < MaxStates
    /\ \E action \in DfsaActions :
          \E r \in {add_state_with_action(the_dfsa, action)} :
             /\ the_dfsa' = r.dfsa
             /\ last' = [op |-> "add_state_with_action", action |-> action, id |-> r.id,
                         before |-> the_dfsa]
    /\ UNCHANGED <<the_builder, lexer, source_reader, message_context, eaten, log, phase, the_executor, the_token_reader>>

\* dfsa.add_transition(from_id, on_element, to_id).
DfsaAddTransition ==
    /\ phase = "dfsa"
    /\ \E from_id \in DfsaIds, on_element \in DfsaElements, to_id \in DfsaIds :
          \E r \in {add_transition(the_dfsa, from_id, on_element, to_id)} :
             /\ the_dfsa' = r.dfsa
             /\ last' = [op |-> "add_transition", from_id |-> from_id,
                         on_element |-> on_element, to_id |-> to_id,
                         result |-> r.result, before |-> the_dfsa]
    /\ UNCHANGED <<the_builder, lexer, source_reader, message_context, eaten, log, phase, the_executor, the_token_reader>>

\* dfsa.set_start_id(id).
DfsaSetStartId ==
    /\ phase = "dfsa"
    /\ \E id \in DfsaIds :
          \E r \in {set_start_id(the_dfsa, id)} :
             /\ the_dfsa' = r.dfsa
             /\ last' = [op |-> "set_start_id", id |-> id, result |-> r.result,
                         before |-> the_dfsa]
    /\ UNCHANGED <<the_builder, lexer, source_reader, message_context, eaten, log, phase, the_executor, the_token_reader>>

\* dfsa.set_state_action(id, action).
DfsaSetStateAction ==
    /\ phase = "dfsa"
    /\ \E id \in DfsaIds, action \in {None} \cup {Some(a) : a \in DfsaActions} :
          \E r \in {set_state_action(the_dfsa, id, action)} :
             /\ the_dfsa' = r.dfsa
             /\ last' = [op |-> "set_state_action", id |-> id, action |-> action,
                         result |-> r.result, before |-> the_dfsa]
    /\ UNCHANGED <<the_builder, lexer, source_reader, message_context, eaten, log, phase, the_executor, the_token_reader>>

DfsaNext ==
    \/ DfsaAddState
    \/ DfsaAddStateWithAction
    \/ DfsaAddTransition
    \/ DfsaSetStartId
    \/ DfsaSetStateAction

DfsaSpec == DfsaInit /\ [][DfsaNext]_vars

---------------------------------------------------------------------------
(* A DFSAExecutor over a finished DFSA, as the tests of dfsa_executor.rs do *)

\* The DFSA of test_dfsa_executor_good: start -a-> a -b-> ab, start -b-> b.
ExecutorGoodDfsa ==
    [states |-> << [action |-> None, transitions |-> [e \in {"a", "b"} |-> IF e = "a" THEN 1 ELSE 3]],
                   [action |-> None, transitions |-> [e \in {"b"} |-> 2]],
                   [action |-> Some("ab"), transitions |-> EmptyMap],
                   [action |-> Some("b"), transitions |-> EmptyMap] >>,
     start_id |-> Some(0)]

\* The states a DFSA of n states can hold: any action, and transitions on
\* any set of elements to states in range (add_transition admits no other).
DfsaStates(n) ==
    {[action |-> a, transitions |-> t] :
        a \in {None} \cup {Some(x) : x \in DfsaActions},
        t \in UNION {[S -> 0..(n - 1)] : S \in SUBSET DfsaElements}}

\* The DFSAs of up to MaxStates states that add_state, add_state_with_action,
\* add_transition, set_state_action and set_start_id build, and the DFSA of
\* the test.
ExecutorDfsas ==
    UNION {{[states |-> st, start_id |-> i] :
               st \in [1..n -> DfsaStates(n)],
               i \in {None} \cup {Some(k) : k \in 0..(n - 1)}} : n \in 0..MaxStates}
       \cup {ExecutorGoodDfsa}

ExecutorElements == {"a", "b"}

ExecutorInit ==
    /\ lexer = Lexer_new
    /\ source_reader = None
    /\ message_context = MessageContext_new
    /\ eaten = <<>>
    /\ log = <<>>
    /\ last = [op |-> "dfsa", stepped |-> FALSE]
    /\ phase = "executor"
    /\ the_dfsa \in ExecutorDfsas
    /\ the_executor = None
    /\ the_builder = None
    /\ the_token_reader = None

\* DFSAExecutor::new(&dfsa).  last.stepped records whether a step has
\* succeeded since construction or the last reset.
ExecutorNew ==
    /\ phase = "executor"
    /\ the_executor = None
    /\ the_builder = None
    /\ LET r == DFSAExecutor_new(the_dfsa)
       IN  /\ the_executor' = IF r.ok THEN Some(r.value) ELSE None
           /\ last' = [op |-> "new", result |-> r, stepped |-> FALSE]
    /\ UNCHANGED <<the_builder, lexer, source_reader, message_context, eaten, log, phase, the_dfsa,
                   the_token_reader>>

\* dfsa_executor.step(element).
ExecutorStep ==
    /\ phase = "executor"
    /\ the_executor.is_some
    /\ \E element \in ExecutorElements :
          LET r == step(the_dfsa, the_executor.value, element)
          IN  /\ the_executor' = Some(r.executor)
              /\ last' = [op |-> "step", element |-> element, result |-> r.result,
                          before |-> the_executor.value,
                          stepped |-> last.stepped \/ r.result.ok]
    /\ UNCHANGED <<the_builder, lexer, source_reader, message_context, eaten, log, phase, the_dfsa,
                   the_token_reader>>

\* dfsa_executor.reset().
ExecutorReset ==
    /\ phase = "executor"
    /\ the_executor.is_some
    /\ the_executor' = Some(reset(the_executor.value))
    /\ last' = [op |-> "reset", before |-> the_executor.value, stepped |-> FALSE]
    /\ UNCHANGED <<the_builder, lexer, source_reader, message_context, eaten, log, phase, the_dfsa,
                   the_token_reader>>

\* dfsa_executor.current_action().
ExecutorCurrentAction ==
    /\ phase = "executor"
    /\ the_executor.is_some
    /\ last' = [op |-> "current_action", result |-> current_action(the_dfsa, the_executor.value),
                before |-> the_executor.value, stepped |-> last.stepped]
    /\ UNCHANGED <<the_builder, lexer, source_reader, message_context, eaten, log, phase, the_dfsa,
                   the_executor, the_token_reader>>

\* dfsa_executor.is_at_start().
ExecutorIsAtStart ==
    /\ phase = "executor"
    /\ the_executor.is_some
    /\ last' = [op |-> "is_at_start", result |-> is_at_start(the_executor.value),
                before |-> the_executor.value, stepped |-> last.stepped]
    /\ UNCHANGED <<the_builder, lexer, source_reader, message_context, eaten, log, phase, the_dfsa,
                   the_executor, the_token_reader>>

ExecutorNext ==
    \/ ExecutorNew
    \/ ExecutorStep
    \/ ExecutorReset
    \/ ExecutorCurrentAction
    \/ ExecutorIsAtStart

ExecutorSpec == ExecutorInit /\ [][ExecutorNext]_vars

---------------------------------------------------------------------------
(* TokenReader over a slice iterator (tokens.iter()), as the tests do *)

\* Token::new(path, offset, line, column, text, kind).
Token_new(offset, line, column, text, kind) ==
    new_from_location([offset |-> offset, line |-> line, column |-> column], text, kind)

\* token.to_kindless().
to_kindless(token) == new_from_location(token.location, token.text, Unit)

\* tokens.iter(): the vector iterated and the index of the item next() returns.
Iter_new(data) == [data |-> data, next |-> 1]

\* iter.next().
Iter_next(iter) ==
    IF iter.next <= Len(iter.data)
    THEN [iter |-> [iter EXCEPT !.next = iter.next + 1], item |-> Some(iter.data[iter.next])]
    ELSE [iter |-> iter, item |-> None]

TokenReader_new(iter) == [tokens |-> <<>>, offset |-> 0, iter |-> iter]

TokenReader_offset(tr) == tr.offset

\* A mutation of seek: the buffer is cut at the new offset.
TokenReader_seek_truncates(tr, n) ==
    IF n <= tr.offset
    THEN [token_reader |-> [tr EXCEPT !.offset = n, !.tokens = SubSeq(tr.tokens, 1, n)],
          panicked |-> FALSE]
    ELSE [token_reader |-> tr, panicked |-> TRUE]

\* seek(offset): the assertion panics on a forward seek.
TokenReader_seek(tr, n) ==
    IF n <= tr.offset
    THEN [token_reader |-> [tr EXCEPT !.offset = n], panicked |-> FALSE]
    ELSE [token_reader |-> tr, panicked |-> TRUE]

ensure_buffer_is_filled_push(tr, n) ==
    IF n.item.is_some
    THEN [tr EXCEPT !.tokens = Append(tr.tokens, n.item.value), !.iter = n.iter]
    ELSE [tr EXCEPT !.iter = n.iter]

\* A mutation of ensure_buffer_is_filled: the upstream iterator is asked
\* wherever the cursor is.
ensure_buffer_is_filled_eager(tr) == ensure_buffer_is_filled_push(tr, Iter_next(tr.iter))

ensure_buffer_is_filled(tr) ==
    IF tr.offset >= Len(tr.tokens) THEN ensure_buffer_is_filled_push(tr, Iter_next(tr.iter))
    ELSE tr

has_more_filled(f) == [token_reader |-> f, result |-> f.offset < Len(f.tokens)]

TokenReader_has_more(tr) == has_more_filled(ensure_buffer_is_filled(tr))

peek_next_filled(f) ==
    [token_reader |-> f,
     result |-> IF f.offset < Len(f.tokens) THEN Some(f.tokens[f.offset + 1]) ELSE None]

TokenReader_peek_next(tr) == peek_next_filled(ensure_buffer_is_filled(tr))

\* A mutation of eat_next: the offset is advanced before the buffer is looked at.
eat_next_filled_always_advances(f) ==
    IF f.offset < Len(f.tokens)
    THEN [token_reader |-> [f EXCEPT !.offset = f.offset + 1],
          result |-> Some(f.tokens[f.offset + 1])]
    ELSE [token_reader |-> [f EXCEPT !.offset = f.offset + 1], result |-> None]

eat_next_filled(f) ==
    IF f.offset < Len(f.tokens)
    THEN [token_reader |-> [f EXCEPT !.offset = f.offset + 1],
          result |-> Some(f.tokens[f.offset + 1])]
    ELSE [token_reader |-> f, result |-> None]

TokenReader_eat_next(tr) == eat_next_filled(ensure_buffer_is_filled(tr))

---------------------------------------------------------------------------
(* ParsingError, Parse, ParserToken, ParserSequential, ParserChoice *)

ParsingError_UnexpectedEndOfSource(expected_token_kinds) ==
    [kind |-> "UnexpectedEndOfSource", expected_token_kinds |-> expected_token_kinds]

ParsingError_UnexpectedToken(expected_token_kinds, actual_token) ==
    [kind |-> "UnexpectedToken", expected_token_kinds |-> expected_token_kinds,
     actual_token |-> actual_token]

RequiredParserFieldMissing(name) == [kind |-> "RequiredParserFieldMissing", name |-> name]

NoExpectedTokensProvided == [kind |-> "NoExpectedTokensProvided"]

\* The parsers the builders build.  An action is named by the label of the
\* tree it builds, as |token| TreeTest::A(token) of the tests.
ParserToken(token_kind, action) ==
    [type |-> "token", token_kind |-> token_kind, action |-> action]

ParserSequential(sequence, action) ==
    [type |-> "sequential", sequence |-> sequence, action |-> action]

ParserChoice(choices) == [type |-> "choice", choices |-> choices]

\* (self.action)(token) of a ParserToken: TreeTest::A(token).
ParserTokenAction(action, token) == [label |-> action, token |-> token, children |-> <<>>]

\* (self.action)(token, children) of a ParserSequential: TreeTest::AB(token, ..).
ParserSequentialAction(action, token, children) ==
    [label |-> action, token |-> token, children |-> children]

\* Tree::token of the test trees.
Tree_token(tree) == tree.token

RECURSIVE expected_tokens_unsafe(_)
RECURSIVE choice_expected_tokens(_, _, _)
RECURSIVE parse(_, _)
RECURSIVE parse_sequential_loop(_, _, _, _, _)
RECURSIVE parse_choice_loop(_, _, _, _)

\* Parse::expected_tokens: the empty set is an error.
expected_tokens_checked(result) ==
    IF ~result.ok THEN result
    ELSE IF result.value = {} THEN Err(NoExpectedTokensProvided)
    ELSE result

expected_tokens(p) == expected_tokens_checked(expected_tokens_unsafe(p))

\* result.insert(token_kind) for the kinds of one child; ? returns its error.
choice_expected_tokens_insert(choices, i, result, e) ==
    IF ~e.ok THEN e ELSE choice_expected_tokens(choices, i + 1, result \cup e.value)

\* The loop of ParserChoice::expected_tokens_unsafe from choices[i] on.
choice_expected_tokens(choices, i, result) ==
    IF i > Len(choices) THEN Ok(result)
    ELSE choice_expected_tokens_insert(choices, i, result, expected_tokens(choices[i]))

\* A mutation of expected_tokens_unsafe: a choice answers as a sequence
\* does, with the kinds of its first alternative.
expected_tokens_unsafe_first_choice(p) ==
    IF p.type = "token" THEN Ok({p.token_kind})
    ELSE IF p.type = "sequential"
    THEN IF p.sequence = <<>> THEN Err(RequiredParserFieldMissing("sequence"))
         ELSE expected_tokens(p.sequence[1])
    ELSE expected_tokens(p.choices[1])

\* expected_tokens_unsafe of ParserToken, ParserSequential and ParserChoice.
expected_tokens_unsafe(p) ==
    IF p.type = "token" THEN Ok({p.token_kind})
    ELSE IF p.type = "sequential"
    THEN IF p.sequence = <<>> THEN Err(RequiredParserFieldMissing("sequence"))
         ELSE expected_tokens(p.sequence[1])
    ELSE choice_expected_tokens(p.choices, 1, {})

\* Err(UnexpectedToken { expected_token_kinds: self.expected_tokens()?, .. }).
unexpected_token(expected, token) ==
    IF expected.ok THEN Err(ParsingError_UnexpectedToken(expected.value, token)) ELSE expected

\* Err(UnexpectedEndOfSource { expected_token_kinds: self.expected_tokens()? }).
unexpected_end_of_source(expected) ==
    IF expected.ok THEN Err(ParsingError_UnexpectedEndOfSource(expected.value)) ELSE expected

\* A mutation of parse_token_eaten: the error carries the kind-erased token.
parse_token_eaten_kindless(p, e) ==
    [token_reader |-> e.token_reader,
     result |-> IF e.result.is_some
                THEN IF e.result.value.kind = p.token_kind
                     THEN Ok(ParserTokenAction(p.action, to_kindless(e.result.value)))
                     ELSE unexpected_token(expected_tokens(p), to_kindless(e.result.value))
                ELSE unexpected_end_of_source(expected_tokens(p)),
     panicked |-> FALSE]

\* A mutation of parse_token_eaten: a token of another kind is put back.
parse_token_eaten_puts_back(p, e) ==
    [token_reader |-> IF e.result.is_some /\ e.result.value.kind # p.token_kind
                      THEN [e.token_reader EXCEPT !.offset = e.token_reader.offset - 1]
                      ELSE e.token_reader,
     result |-> IF e.result.is_some
                THEN IF e.result.value.kind = p.token_kind
                     THEN Ok(ParserTokenAction(p.action, to_kindless(e.result.value)))
                     ELSE unexpected_token(expected_tokens(p), e.result.value)
                ELSE unexpected_end_of_source(expected_tokens(p)),
     panicked |-> FALSE]

\* ParserToken::parse after token_reader.eat_next() returned e.
parse_token_eaten(p, e) ==
    [token_reader |-> e.token_reader,
     result |-> IF e.result.is_some
                THEN IF e.result.value.kind = p.token_kind
                     THEN Ok(ParserTokenAction(p.action, to_kindless(e.result.value)))
                     ELSE unexpected_token(expected_tokens(p), e.result.value)
                ELSE unexpected_end_of_source(expected_tokens(p)),
     panicked |-> FALSE]

parse_token(p, tr) == parse_token_eaten(p, TokenReader_eat_next(tr))

\* ParserSequential::parse after the loop: the action, or the error when no
\* child gave the token.
parse_sequential_done(p, tr, token, children) ==
    [token_reader |-> tr,
     result |-> IF token.is_some THEN Ok(ParserSequentialAction(p.action, token.value, children))
                ELSE Err(RequiredParserFieldMissing("sequence")),
     panicked |-> FALSE]

\* A mutation of parse_sequential_child: a failed child is skipped and the
\* loop goes on; the error of the last failed child is lost with it.
parse_sequential_child_skips(p, i, token, children, c) ==
    IF c.panicked THEN c
    ELSE IF c.result.ok
    THEN parse_sequential_loop(p, c.token_reader, i + 1,
                               IF token.is_some THEN token
                               ELSE Some(Tree_token(c.result.value)),
                               Append(children, c.result.value))
    ELSE IF i < Len(p.sequence)
    THEN parse_sequential_loop(p, c.token_reader, i + 1, token, children)
    ELSE c

\* A mutation of parse_sequential_child: the token is that of the last child.
parse_sequential_child_last_token(p, i, token, children, c) ==
    IF c.panicked THEN c
    ELSE IF c.result.ok
    THEN parse_sequential_loop(p, c.token_reader, i + 1, Some(Tree_token(c.result.value)),
                               Append(children, c.result.value))
    ELSE c

\* The match on child_parser.parse(token_reader) = c of sequence[i].
parse_sequential_child(p, i, token, children, c) ==
    IF c.panicked THEN c
    ELSE IF c.result.ok
    THEN parse_sequential_loop(p, c.token_reader, i + 1,
                               IF token.is_some THEN token
                               ELSE Some(Tree_token(c.result.value)),
                               Append(children, c.result.value))
    ELSE c

\* The for loop of ParserSequential::parse from sequence[i] on.
parse_sequential_loop(p, tr, i, token, children) ==
    IF i > Len(p.sequence) THEN parse_sequential_done(p, tr, token, children)
    ELSE parse_sequential_child(p, i, token, children, parse(p.sequence[i], tr))

\* A mutation of parse_sequential: a failed sequence seeks back to the
\* offset it was entered at.
parse_sequential_rewinds(p, tr) ==
    Bind(parse_sequential_loop(p, tr, 1, None, <<>>), LAMBDA r :
         IF r.panicked \/ r.result.ok THEN r
         ELSE [r EXCEPT !.token_reader.offset = tr.offset])

parse_sequential(p, tr) == parse_sequential_loop(p, tr, 1, None, <<>>)

\* ParserChoice::parse after the loop, token_reader.peek_next() returned k.
parse_choice_failed(p, k) ==
    [token_reader |-> k.token_reader,
     result |-> IF k.result.is_some THEN unexpected_token(expected_tokens(p), k.result.value)
                ELSE unexpected_end_of_source(expected_tokens(p)),
     panicked |-> FALSE]

\* token_reader.seek(offset) = s after choices[i] failed.
parse_choice_sought(p, offset, i, s) ==
    IF s.panicked THEN [token_reader |-> s.token_reader, result |-> None, panicked |-> TRUE]
    ELSE parse_choice_loop(p, s.token_reader, offset, i + 1)

\* A mutation of parse_choice_child: the reader is left where the failed
\* alternative stopped.
parse_choice_child_no_seek(p, offset, i, c) ==
    IF c.panicked \/ c.result.ok THEN c
    ELSE parse_choice_loop(p, c.token_reader, offset, i + 1)

parse_choice_child_pick(c, later) ==
    IF ~later.panicked /\ later.result.ok THEN later ELSE c

\* A mutation of parse_choice_child: a successful alternative is returned
\* only when no later alternative succeeds.
parse_choice_child_prefers_later(p, offset, i, c) ==
    IF c.panicked THEN c
    ELSE IF c.result.ok
    THEN parse_choice_child_pick(c, parse_choice_loop(p, TokenReader_seek(c.token_reader, offset).token_reader,
                                                      offset, i + 1))
    ELSE parse_choice_sought(p, offset, i, TokenReader_seek(c.token_reader, offset))

\* The if let on child_parser.parse(token_reader) = c of choices[i].
parse_choice_child(p, offset, i, c) ==
    IF c.panicked \/ c.result.ok THEN c
    ELSE parse_choice_sought(p, offset, i, TokenReader_seek(c.token_reader, offset))

\* The for loop of ParserChoice::parse from choices[i] on.
parse_choice_loop(p, tr, offset, i) ==
    IF i > Len(p.choices) THEN parse_choice_failed(p, TokenReader_peek_next(tr))
    ELSE parse_choice_child(p, offset, i, parse(p.choices[i], tr))

parse_choice(p, tr) == parse_choice_loop(p, tr, TokenReader_offset(tr), 1)

\* child_parser.parse(token_reader) on a Box<dyn Parse>.
parse(p, tr) ==
    IF p.type = "token" THEN parse_token(p, tr)
    ELSE IF p.type = "sequential" THEN parse_sequential(p, tr)
    ELSE parse_choice(p, tr)

---------------------------------------------------------------------------
(* A TokenReader and parsers over it, as the tests of token_reader.rs,     *)
(* parser_token.rs, parser_sequential.rs and parser_choice.rs do           *)

MaxTokens == 3

TokenKinds == {"A", "B", "C"}

\* The token of kind k at stream position i, as the tests build them.
TokenAt(i, k) ==
    Token_new(i, 1, i + 1, <<CHOOSE c \in {"a", "b", "c"} : <<k, c>> \in {<<"A", "a">>, <<"B", "b">>, <<"C", "c">>}>>, k)

TokenInputs ==
    {[i \in 1..Len(ks) |-> TokenAt(i - 1, ks[i])] : ks \in SeqsUpTo(TokenKinds, MaxTokens)}

\* The terminal parsers of the tests: kinds A and B, actions TreeTest::A / B.
ParserTokens == {ParserToken(k, k) : k \in {"A", "B"}}

\* One or two sub-parsers out of S.
Parts(S) == {<<a>> : a \in S} \cup {<<a, b>> : a \in S, b \in S}

\* Sequences and choices of terminals, as the tests build them.
ParsersFlat ==
    {ParserSequential(q, "AB") : q \in Parts(ParserTokens)}
       \cup {ParserChoice(q) : q \in Parts(ParserTokens)}

ParserA == ParserToken("A", "A")

ParserB == ParserToken("B", "B")

\* Choices of sequences, nested choices, and sequences over them.
ParsersNested ==
    { ParserChoice(<<ParserSequential(<<ParserA, ParserB>>, "AB"),
                    ParserSequential(<<ParserA, ParserA>>, "AA")>>),
      ParserChoice(<<ParserChoice(<<ParserSequential(<<ParserA, ParserA, ParserB>>, "AAB"),
                                   ParserB>>),
                    ParserSequential(<<ParserA, ParserB>>, "AB")>>),
      ParserSequential(<<ParserChoice(<<ParserA, ParserB>>), ParserB>>, "XB"),
      ParserSequential(<<ParserSequential(<<ParserB, ParserA>>, "BA"), ParserA>>, "BAA"),
      ParserSequential(<<ParserA,
                         ParserChoice(<<ParserSequential(<<ParserA, ParserB>>, "AB"),
                                        ParserB>>)>>, "AX"),
      ParserChoice(<<ParserA, ParserSequential(<<ParserA, ParserB>>, "AB")>>) }

Parsers == ParserTokens \cup ParsersFlat \cup ParsersNested

\* tokens.iter() and TokenReader::new(&mut tokens_iter).
ParserInit ==
    /\ lexer = Lexer_new
    /\ source_reader = None
    /\ message_context = MessageContext_new
    /\ eaten = <<>>
    /\ log = <<>>
    /\ last = [op |-> "new"]
    /\ phase = "parser"
    /\ the_dfsa = DFSA_new
    /\ the_executor = None
    /\ the_builder = None
    /\ \E tokens \in TokenInputs :
          the_token_reader = Some(TokenReader_new(Iter_new(tokens)))

\* token_reader.seek(n); a failed assertion ends the run.
TokenReaderSeek ==
    /\ phase = "parser"
    /\ \E n \in 0..MaxTokens :
          LET r == TokenReader_seek(the_token_reader.value, n)
          IN  /\ the_token_reader' = Some(r.token_reader)
              /\ phase' = IF r.panicked THEN "panicked" ELSE "parser"
              /\ last' = [op |-> "seek", n |-> n, panicked |-> r.panicked,
                          before |-> the_token_reader.value]
    /\ UNCHANGED <<the_builder, lexer, source_reader, message_context, eaten, log, the_dfsa, the_executor>>

\* token_reader.has_more().
TokenReaderHasMore ==
    /\ phase = "parser"
    /\ LET r == TokenReader_has_more(the_token_reader.value)
       IN  /\ the_token_reader' = Some(r.token_reader)
           /\ last' = [op |-> "has_more", result |-> r.result,
                       before |-> the_token_reader.value]
    /\ UNCHANGED <<the_builder, lexer, source_reader, message_context, eaten, log, phase, the_dfsa,
                   the_executor>>

\* token_reader.peek_next().
TokenReaderPeekNext ==
    /\ phase = "parser"
    /\ LET r == TokenReader_peek_next(the_token_reader.value)
       IN  /\ the_token_reader' = Some(r.token_reader)
           /\ last' = [op |-> "peek_next", result |-> r.result,
                       before |-> the_token_reader.value]
    /\ UNCHANGED <<the_builder, lexer, source_reader, message_context, eaten, log, phase, the_dfsa,
                   the_executor>>

\* token_reader.eat_next().
TokenReaderEatNext ==
    /\ phase = "parser"
    /\ LET r == TokenReader_eat_next(the_token_reader.value)
       IN  /\ the_token_reader' = Some(r.token_reader)
           /\ last' = [op |-> "eat_next", result |-> r.result,
                       before |-> the_token_reader.value]
    /\ UNCHANGED <<the_builder, lexer, source_reader, message_context, eaten, log, phase, the_dfsa,
                   the_executor>>

\* parser.parse(&mut token_reader).
Parse ==
    /\ phase = "parser"
    /\ \E p \in Parsers :
          \E r \in {parse(p, the_token_reader.value)} :
             /\ the_token_reader' = Some(r.token_reader)
             /\ phase' = IF r.panicked THEN "panicked" ELSE "parser"
             /\ last' = [op |-> "parse", parser |-> p, result |-> r.result,
                         panicked |-> r.panicked, before |-> the_token_reader.value]
    /\ UNCHANGED <<the_builder, lexer, source_reader, message_context, eaten, log, the_dfsa, the_executor>>

\* parser.expected_tokens().
ExpectedTokens ==
    /\ phase = "parser"
    /\ \E p \in Parsers :
          last' = [op |-> "expected_tokens", parser |-> p, result |-> expected_tokens(p)]
    /\ UNCHANGED <<the_builder, lexer, source_reader, message_context, eaten, log, phase, the_dfsa,
                   the_executor, the_token_reader>>

ParserNext ==
    \/ TokenReaderSeek
    \/ TokenReaderHasMore
    \/ TokenReaderPeekNext
    \/ TokenReaderEatNext
    \/ Parse
    \/ ExpectedTokens

ParserSpec == ParserInit /\ [][ParserNext]_vars

---------------------------------------------------------------------------
(* ParserTokenBuilder, ParserSequentialBuilder, ParserChoiceBuilder *)

ParserTokenBuilder_default == [type |-> "token", token_kind |-> None, action |-> None]

ParserTokenBuilder_token_kind(b, value) == [b EXCEPT !.token_kind = Some(value)]

ParserTokenBuilder_action(b, value) == [b EXCEPT !.action = Some(value)]

\* build(): token_kind is looked at first; the fields are Copy and stay.
ParserTokenBuilder_build(b) ==
    [builder |-> b,
     result |-> IF ~b.token_kind.is_some THEN Err(RequiredParserFieldMissing("token_kind"))
                ELSE IF ~b.action.is_some THEN Err(RequiredParserFieldMissing("action"))
                ELSE Ok(ParserToken(b.token_kind.value, b.action.value))]

ParserSequentialBuilder_default == [type |-> "sequential", sequence |-> <<>>, action |-> None]

ParserSequentialBuilder_sequence(b, value) == [b EXCEPT !.sequence = Append(b.sequence, value)]

ParserSequentialBuilder_action(b, value) == [b EXCEPT !.action = Some(value)]

\* build(): the fields of the struct expression are evaluated in the order
\* written, so mem::take(&mut self.sequence) has emptied the builder when
\* self.action.ok_or(..)? returns the error.
ParserSequentialBuilder_build(b) ==
    IF b.sequence = <<>>
    THEN [builder |-> b, result |-> Err(RequiredParserFieldMissing("sequence"))]
    ELSE [builder |-> [b EXCEPT !.sequence = <<>>],
          result |-> IF b.action.is_some THEN Ok(ParserSequential(b.sequence, b.action.value))
                     ELSE Err(RequiredParserFieldMissing("action"))]

ParserChoiceBuilder_default == [type |-> "choice", choices |-> <<>>]

ParserChoiceBuilder_choices(b, value) == [b EXCEPT !.choices = Append(b.choices, value)]

ParserChoiceBuilder_build(b) ==
    IF b.choices = <<>>
    THEN [builder |-> b, result |-> Err(RequiredParserFieldMissing("choices"))]
    ELSE [builder |-> [b EXCEPT !.choices = <<>>], result |-> Ok(ParserChoice(b.choices))]

---------------------------------------------------------------------------
(* The builders used on their own *)

MaxSubParsers == 2

\* XBuilder::default().  last.supplied is the set of fields a setter has been
\* called for since, last.given the sub-parsers handed over, in order.
BuilderInit ==
    /\ lexer = Lexer_new
    /\ source_reader = None
    /\ message_context = MessageContext_new
    /\ eaten = <<>>
    /\ log = <<>>
    /\ last = [op |-> "default", supplied |-> {}, given |-> <<>>]
    /\ phase = "builder"
    /\ the_dfsa = DFSA_new
    /\ the_executor = None
    /\ the_token_reader = None
    /\ the_builder \in {Some(ParserTokenBuilder_default), Some(ParserSequentialBuilder_default),
                         Some(ParserChoiceBuilder_default)}

BuilderFrame ==
    UNCHANGED <<lexer, source_reader, message_context, eaten, log, phase, the_dfsa,
                the_executor, the_token_reader>>

\* builder.token_kind(value) on a ParserTokenBuilder.
TokenBuilderTokenKind ==
    /\ phase = "builder" /\ the_builder.value.type = "token"
    /\ \E value \in {"A", "B"} :
          the_builder' = Some(ParserTokenBuilder_token_kind(the_builder.value, value))
    /\ last' = [op |-> "token_kind", supplied |-> last.supplied \cup {"token_kind"},
                given |-> last.given]
    /\ BuilderFrame

\* builder.action(value) on a ParserTokenBuilder.
TokenBuilderAction ==
    /\ phase = "builder" /\ the_builder.value.type = "token"
    /\ \E value \in {"A", "B"} :
          the_builder' = Some(ParserTokenBuilder_action(the_builder.value, value))
    /\ last' = [op |-> "action", supplied |-> last.supplied \cup {"action"}, given |-> last.given]
    /\ BuilderFrame

\* builder.build() on a ParserTokenBuilder.
TokenBuilderBuild ==
    /\ phase = "builder" /\ the_builder.value.type = "token"
    /\ LET r == ParserTokenBuilder_build(the_builder.value)
       IN  /\ the_builder' = Some(r.builder)
           /\ last' = [op |-> "build", result |-> r.result, supplied |-> last.supplied,
                       given |-> last.given, before |-> the_builder.value]
    /\ BuilderFrame

\* builder.sequence(value) on a ParserSequentialBuilder.
SequentialBuilderSequence ==
    /\ phase = "builder" /\ the_builder.value.type = "sequential"
    /\ Len(last.given) < MaxSubParsers
    /\ \E value \in ParserTokens :
          /\ the_builder' = Some(ParserSequentialBuilder_sequence(the_builder.value, value))
          /\ last' = [op |-> "sequence", supplied |-> last.supplied \cup {"sequence"},
                      given |-> Append(last.given, value)]
    /\ BuilderFrame

\* builder.action(value) on a ParserSequentialBuilder.
SequentialBuilderAction ==
    /\ phase = "builder" /\ the_builder.value.type = "sequential"
    /\ \E value \in {"AB", "BA"} :
          the_builder' = Some(ParserSequentialBuilder_action(the_builder.value, value))
    /\ last' = [op |-> "action", supplied |-> last.supplied \cup {"action"}, given |-> last.given]
    /\ BuilderFrame

\* builder.build() on a ParserSequentialBuilder.
SequentialBuilderBuild ==
    /\ phase = "builder" /\ the_builder.value.type = "sequential"
    /\ LET r == ParserSequentialBuilder_build(the_builder.value)
       IN  /\ the_builder' = Some(r.builder)
           /\ last' = [op |-> "build", result |-> r.result, supplied |-> last.supplied,
                       given |-> last.given, before |-> the_builder.value]
    /\ BuilderFrame

\* builder.choices(value) on a ParserChoiceBuilder.
ChoiceBuilderChoices ==
    /\ phase = "builder" /\ the_builder.value.type = "choice"
    /\ Len(last.given) < MaxSubParsers
    /\ \E value \in ParserTokens :
          /\ the_builder' = Some(ParserChoiceBuilder_choices(the_builder.value, value))
          /\ last' = [op |-> "choices", supplied |-> last.supplied \cup {"choices"},
                      given |-> Append(last.given, value)]
    /\ BuilderFrame

\* builder.build() on a ParserChoiceBuilder.
ChoiceBuilderBuild ==
    /\ phase = "builder" /\ the_builder.value.type = "choice"
    /\ LET r == ParserChoiceBuilder_build(the_builder.value)
       IN  /\ the_builder' = Some(r.builder)
           /\ last' = [op |-> "build", result |-> r.result, supplied |-> last.supplied,
                       given |-> last.given, before |-> the_builder.value]
    /\ BuilderFrame

BuilderNext ==
    \/ TokenBuilderTokenKind
    \/ TokenBuilderAction
    \/ TokenBuilderBuild
    \/ SequentialBuilderSequence
    \/ SequentialBuilderAction
    \/ SequentialBuilderBuild
    \/ ChoiceBuilderChoices
    \/ ChoiceBuilderBuild

BuilderSpec == BuilderInit /\ [][BuilderNext]_vars

---------------------------------------------------------------------------
(* Vocabulary of the properties *)

IsPrefix(p, s) == Len(p) <= Len(s) /\ SubSeq(s, 1, Len(p)) = p

\* Newline folding as specified: CR LF and CR CR are one newline, a CR before
\* anything else or at the end of the input is one newline.
RECURSIVE FoldNewlines(_)
FoldNewlines(raw) ==
    IF raw = <<>> THEN <<>>
    ELSE IF Head(raw) = "CR"
    THEN IF Len(raw) >= 2 /\ raw[2] \in {"CR", "LF"}
         THEN <<"LF">> \o FoldNewlines(SubSeq(raw, 3, Len(raw)))
         ELSE <<"LF">> \o FoldNewlines(Tail(raw))
    ELSE <<Head(raw)>> \o FoldNewlines(Tail(raw))

\* The state reached by walking p from state id, as a Result.
RECURSIVE Walk(_, _, _)
Walk(dfsa, id, p) ==
    IF p = <<>> THEN Ok(id)
    ELSE LET t == try_get_transition(dfsa, id, Head(p))
         IN  IF t.ok THEN Walk(dfsa, t.value, Tail(p)) ELSE t

\* The action registered for prefix p, None when p is not a trigger.
ActionOf(lx, p) ==
    LET s == Walk(lx.trigger_dfsa, lx.trigger_dfsa.start_id.value, p)
    IN  IF s.ok THEN lx.trigger_dfsa.states[s.value + 1].action ELSE None

PoolPrefixes == {t[1] : t \in TriggerPool}

Registered(lx) == {p \in PoolPrefixes : ActionOf(lx, p).is_some}

PrefixOf(callback) == (CHOOSE t \in TriggerPool : t[2] = callback)[1]

Lexing == phase # "build"

Data == source_reader.value.source.data

Entries(kind) == SelectSeq(log, LAMBDA e : e.kind = kind)

Tokens == [i \in DOMAIN Entries("token") |-> Entries("token")[i].token]

Loc(offset, line, column) == [offset |-> offset, line |-> line, column |-> column]

Tok(offset, line, column, text, kind) ==
    [location |-> Loc(offset, line, column), text |-> text, kind |-> kind]

\* The last call returned to its caller (did not panic) and was op.
Returned(op) == last.op = op /\ ~last.panicked

\* next() returned None.
IterationEnded == Returned("next") /\ last.result = None

---------------------------------------------------------------------------
(* C1..C10: the lexer driver *)

\* C1: longest match.  Every trigger whose callback runs is a registered
\* prefix of the (newline-folded) unread input at the position where the
\* match attempt started, and no longer registered prefix matches there;
\* with triggers "ab" and "abc" registered and input "abc" the only token
\* ever emitted is ABC("abc")@(0,1,1).
C1_LongestMatch ==
    /\ \A i \in DOMAIN log :
          log[i].kind = "callback" =>
             LET f == FoldNewlines(log[i].rest)
                 p == PrefixOf(log[i].callback)
             IN  /\ IsPrefix(p, f)
                 /\ ActionOf(lexer, p) = Some(log[i].callback)
                 /\ \A q \in Registered(lexer) : IsPrefix(q, f) => Len(q) <= Len(p)
    /\ (Lexing /\ {<<"a", "b">>, <<"a", "b", "c">>} \subseteq Registered(lexer)
          /\ Data = <<"a", "b", "c">>)
          => /\ Tokens \in {<<>>, <<Tok(0, 1, 1, <<"a", "b", "c">>, "ABC")>>}
             /\ IterationEnded => Tokens # <<>>

C1_Witness ==
    /\ Lexing
    /\ {<<"a", "b">>, <<"a", "b", "c">>} \subseteq Registered(lexer)
    /\ Data = <<"a", "b", "c">>
    /\ IterationEnded
    /\ Tokens = <<Tok(0, 1, 1, <<"a", "b", "c">>, "ABC")>>
    /\ \E i \in DOMAIN log : log[i].kind = "callback" /\ log[i].callback.kind = "ABC"

\* C2: when the selected trigger's callback is invoked the buffer is exactly
\* the trigger's prefix, and a token whose callback consumed nothing has
\* exactly the prefix as its text.
C2_BufferIsPrefix ==
    \A i \in DOMAIN log :
       /\ log[i].kind = "callback" => log[i].buffer = PrefixOf(log[i].callback)
       /\ (log[i].kind = "token" /\ log[i].callback.mode = "kind")
             => log[i].token.text = PrefixOf(log[i].callback)

\* The index in eaten of the first character of a token entry's text.
First(e) == e.eaten_end - Len(e.token.text) + 1

\* C3: a token's location is the location the reader had immediately before
\* it yielded the first character of the token's text.
C3_TokenLocation ==
    \A i \in DOMAIN log :
       log[i].kind = "token" =>
          LET first == First(log[i])
              text == log[i].token.text
          IN  /\ text # <<>>
              /\ first >= 1
              /\ \A k \in 1..Len(text) : eaten[first + k - 1].chr = text[k]
              /\ eaten[first].before = log[i].token.location

C3_Witness ==
    \E i, j, k \in DOMAIN log :
       /\ i < k /\ j < k
       /\ log[i].kind = "skipped"
       /\ log[j].kind = "discarded"
       /\ log[k].kind = "token"
       /\ log[k].token.location = Loc(2, 2, 1)

\* The texts of the tokens, skipped triggers and recovery discards, in order.
RECURSIVE Accounted(_)
Accounted(l) ==
    IF l = <<>> THEN <<>>
    ELSE LET e == Head(l)
         IN  (IF e.kind = "token" THEN e.token.text
              ELSE IF e.kind \in {"skipped", "discarded"} THEN e.text
              ELSE <<>>) \o Accounted(Tail(l))

\* C4: when next() has returned None, the newline-folded source is exactly
\* the concatenation of the token texts, skipped texts and discarded texts.
C4_Conservation ==
    IterationEnded => Accounted(log) = FoldNewlines(Data)

InternalErrorEmitted ==
    \E i \in DOMAIN message_context.messages :
       message_context.messages[i].severity = "InternalError"

\* C5: when next() has returned None without an internal-error diagnostic,
\* the source has no more characters.
C5_StopsOnlyAtEnd ==
    (IterationEnded /\ ~InternalErrorEmitted)
       => source_reader.value.source.iter = Len(Data)

\* What C6 says of a failed match attempt: UnexpectedCharacter(c) when nothing
\* was taken from the source and a first character c existed,
\* UnexpectedEndOfSource otherwise.
FailureAsClaimed(err, attempt) ==
    IF attempt.taken = 0 /\ attempt.rest # <<>>
    THEN err = UnexpectedCharacter(Head(FoldNewlines(attempt.rest)))
    ELSE err = UnexpectedEndOfSource

\* C6: every failure of lex_next (called directly, or inside next()) is
\* UnexpectedCharacter(c) exactly when no character was consumed and c could
\* be peeked, and UnexpectedEndOfSource in every other case.
C6_FailureKind ==
    /\ (Returned("lex_next") /\ ~last.result.ok) => FailureAsClaimed(last.result.err, last.attempt)
    /\ (Returned("next") /\ ~last.lex_result.ok)
          => FailureAsClaimed(last.lex_result.err, last.attempt)
    /\ \A i \in DOMAIN log :
          log[i].kind = "diagnostic"
             => FailureAsClaimed(UnexpectedCharacter(log[i].chr), log[i].attempt)

ErrorMessages == SelectSeq(message_context.messages, LAMBDA m : m.severity = "Error")

OnlyTriggerA == Registered(lexer) = {<<"a">>} /\ ActionOf(lexer, <<"a">>).value.mode = "kind"

\* C7: every UnexpectedCharacter inside next() gives one Error diagnostic and
\* one handler invocation followed by clear_buffer, the handler's characters
\* start with the unexpected one (the default handler takes exactly one
\* folded character), and next() goes on instead of returning None for it.
\* Trigger "a" on "aba" yields A@(0,1,1), A@(2,1,3) and one Error; with the
\* two-character handler on "abaa" the second token is A@(3,1,4).
C7_Recovery ==
    /\ Len(ErrorMessages) = Len(Entries("diagnostic"))
    /\ Len(Entries("discarded")) = Len(Entries("diagnostic"))
    /\ \A i \in DOMAIN log :
          log[i].kind = "diagnostic" =>
             /\ i < Len(log)
             /\ log[i + 1].kind = "discarded"
             /\ log[i + 1].raw # <<>>
             /\ Head(FoldNewlines(log[i + 1].raw)) = log[i].chr
             /\ get_error_handler(lexer) = "eat_one" => Len(FoldNewlines(log[i + 1].raw)) = 1
             /\ log[i + 1].buffer_after = Some(<<>>)
    /\ Returned("next") /\ ~last.lex_result.ok
          => last.lex_result.err.kind # "UnexpectedCharacter"
    /\ (Lexing /\ OnlyTriggerA /\ ~lexer.error_handler.is_some /\ Data = <<"a", "b", "a">>
          /\ IterationEnded)
          => /\ Tokens = <<Tok(0, 1, 1, <<"a">>, "A"), Tok(2, 1, 3, <<"a">>, "A")>>
             /\ Len(ErrorMessages) = 1
    /\ (Lexing /\ OnlyTriggerA /\ lexer.error_handler = Some("eat_two")
          /\ Data = <<"a", "b", "a", "a">> /\ IterationEnded)
          => /\ Tokens = <<Tok(0, 1, 1, <<"a">>, "A"), Tok(3, 1, 4, <<"a">>, "A")>>
             /\ Len(ErrorMessages) = 1

C7_Witness ==
    /\ Lexing /\ OnlyTriggerA /\ ~lexer.error_handler.is_some
    /\ Data = <<"a", "b", "a">>
    /\ IterationEnded
    /\ Len(Tokens) = 2
    /\ Len(ErrorMessages) = 1

\* C8: the Error diagnostic for an unexpected character is anchored at the
\* location of that character, the reader's location when the failing match
\* attempt started.
C8_DiagnosticAtChar ==
    /\ \A i \in DOMAIN log :
          log[i].kind = "diagnostic" => log[i].location = log[i].reader_location
    /\ \A k \in DOMAIN ErrorMessages :
          k <= Len(Entries("diagnostic"))
             => ErrorMessages[k].location = Entries("diagnostic")[k].reader_location

EatBScenarioLexer ==
    /\ Registered(lexer) = {<<"a", "b">>, <<"a", "c">>, <<"a", "b", "c">>}
    /\ ActionOf(lexer, <<"a", "b">>).value.mode = "eat_b"

EatBScenarioData == <<"a", "b", "b", "b", "a", "c", "a", "b", "c", "a", "c">>

EatBScenarioTokens ==
    << Tok(0, 1, 1, <<"a", "b", "b", "b">>, "AB"), Tok(4, 1, 5, <<"a", "c">>, "AC"),
       Tok(6, 1, 7, <<"a", "b", "c">>, "ABC"), Tok(9, 1, 10, <<"a", "c">>, "AC") >>

EatenChars(from, to) == [k \in 1..(to - from + 1) |-> eaten[from + k - 1].chr]

\* C9: a token's text is the buffer the callback found followed by every
\* character the callback consumed, its location is that of its first
\* character, and the match attempt that follows a token starts with the
\* character right after the last one the callback consumed.  The "ab"
\* callback that eats following 'b's gives AB("abbb")@(0,1,1),
\* AC("ac")@(4,1,5), ABC("abc")@(6,1,7), AC("ac")@(9,1,10) on "abbbacabcac".
C9_CallbackExtension ==
    /\ \A i \in DOMAIN log :
          log[i].kind = "token" =>
             /\ i > 1
             /\ log[i - 1].kind = "callback"
             /\ log[i].token.text =
                   log[i - 1].buffer \o EatenChars(log[i - 1].eaten_at + 1, log[i].eaten_end)
             /\ log[i].token.location = eaten[First(log[i])].before
             /\ (i < Len(log) /\ log[i + 1].kind = "callback")
                   => log[i + 1].eaten_at - Len(log[i + 1].buffer) = log[i].eaten_end
    /\ (Lexing /\ EatBScenarioLexer /\ Data = EatBScenarioData)
          => /\ IsPrefix(Tokens, EatBScenarioTokens)
             /\ IterationEnded => Tokens = EatBScenarioTokens

C9_Witness ==
    /\ Lexing /\ EatBScenarioLexer /\ Data = EatBScenarioData
    /\ Tokens = EatBScenarioTokens
    /\ Returned("lex_next")
    /\ last.result = Err(UnexpectedEndOfSource)

\* C10: a callback returning none emits no token for the matched text: the
\* text is dropped and the buffer is cleared, the next match attempt starts at
\* the first character after the skipped text, and every later token consists
\* of characters consumed after the skipped ones and is located after them.
C10_SkipToken ==
    \A i \in DOMAIN log :
       /\ (log[i].kind = "callback" /\ log[i].callback.mode = "none")
             => /\ i < Len(log)
                /\ log[i + 1].kind = "skipped"
                /\ log[i + 1].text = log[i].buffer
                /\ log[i + 1].buffer_after = Some(<<>>)
       /\ log[i].kind = "skipped" =>
             /\ i > 1 /\ log[i - 1].kind = "callback" /\ log[i - 1].callback.mode = "none"
             /\ (i < Len(log) /\ log[i + 1].kind = "callback")
                   => log[i + 1].eaten_at - Len(log[i + 1].buffer) = log[i].eaten_end
             /\ \A k \in DOMAIN log :
                   (k > i /\ log[k].kind = "token") =>
                      /\ First(log[k]) > log[i].eaten_end
                      /\ log[k].token.location = eaten[First(log[k])].before
                      /\ log[k].token.location.offset >= eaten[log[i].eaten_end].before.offset + 1

C10_Witness ==
    \E i, k \in DOMAIN log :
       /\ i < k
       /\ log[i].kind = "skipped"
       /\ log[k].kind = "token"
       /\ log[k].token.location.offset > 0

---------------------------------------------------------------------------
(* C11..C16: the source reader *)

Reading == phase = "reader"

Reader == source_reader.value

\* The characters of the string that reader rd has not taken yet.
Unread(rd) == SubSeq(rd.source.data, rd.source.iter + 1, Len(rd.source.data))

\* The characters the reader has yielded so far.
Yielded == EatenChars(1, Len(eaten))

\* The last call was eat_next on the reader used on its own.
Ate == Reading /\ last.op = "eat_next"

\* The number of newlines of a concatenation of LF, CR LF and CR CR.
RECURSIVE CountNewlines(_)
CountNewlines(raw) ==
    IF raw = <<>> THEN 0
    ELSE IF Head(raw) = "LF" THEN 1 + CountNewlines(Tail(raw))
    ELSE 1 + CountNewlines(SubSeq(raw, 3, Len(raw)))

\* C11: eat_next on a CR that is followed by LF or CR yields one LF with both
\* characters taken (offset + 2, line + 1); on a CR followed by another
\* character it yields LF with one character taken and the next eat_next
\* returns that character; the characters yielded are always a prefix of the
\* folded source, and a source that is a concatenation of LF, CR LF and CR CR
\* yields only LFs, one per newline once it is read to its end.
C11_FoldOnConsume ==
    /\ Ate =>
          LET rest == Unread(last.before)
          IN  /\ (Len(rest) >= 2 /\ rest[1] = "CR" /\ rest[2] \in {"CR", "LF"})
                    => /\ last.result = Ok("LF")
                       /\ Reader.source.iter = last.before.source.iter + 2
                       /\ Reader.source.offset = last.before.source.offset + 2
                       /\ Reader.location.offset = last.before.location.offset + 2
                       /\ Reader.location.line = last.before.location.line + 1
              /\ (Len(rest) >= 2 /\ rest[1] = "CR" /\ rest[2] \notin {"CR", "LF"})
                    => /\ last.result = Ok("LF")
                       /\ Reader.source.iter = last.before.source.iter + 1
                       /\ Reader.source.offset = last.before.source.offset + 1
                       /\ Reader.location.line = last.before.location.line + 1
                       /\ eat_next_helper_push_buffer(Reader).result = Ok(rest[2])
    /\ Reading =>
          /\ IsPrefix(Yielded, FoldNewlines(Data))
          /\ Data \in NewlineTexts(MaxLen) =>
                /\ \A k \in DOMAIN eaten : eaten[k].chr = "LF"
                /\ Reader.source.iter = Len(Data) => Len(eaten) = CountNewlines(Data)

C11_Witness ==
    /\ Ate
    /\ Data = <<"CR", "LF", "CR", "CR">>
    /\ Reader.source.iter = 4
    /\ Yielded = <<"LF", "LF">>
    /\ Reader.location = Loc(4, 3, 1)

\* C12: eat_next on a CR that is the last character of the source returns
\* Ok(LF) with one character taken, the line grows by one and the column is 1
\* (source "\r" ends at line 2, column 1), and the LF is appended to an
\* enabled buffer.
C12_TrailingCR ==
    (Ate /\ Unread(last.before) = <<"CR">>) =>
       /\ last.result = Ok("LF")
       /\ Reader.source.iter = last.before.source.iter + 1
       /\ Reader.location.line = last.before.location.line + 1
       /\ Reader.location.column = COLUMN_INITIAL
       /\ last.before.buffer.is_some
             => Reader.buffer = Some(Append(last.before.buffer.value, "LF"))
       /\ Data = <<"CR">> => (Reader.location.line = 2 /\ Reader.location.column = 1)

\* The index of the last LF in a sequence of characters, 0 when there is none.
LastNewline(chars) ==
    LET at == {0} \cup {k \in DOMAIN chars : chars[k] = "LF"}
    IN  CHOOSE k \in at : \A j \in at : j <= k

LineThenNewlineDosThenLine == <<"a", "b", "CR", "LF", "c", "d">>

PositionTrace ==
    <<Loc(0, 1, 1), Loc(1, 1, 2), Loc(2, 1, 3), Loc(4, 2, 1), Loc(5, 2, 2), Loc(6, 2, 3)>>

\* C13: as long as every eat_next succeeded, line is 1 plus the number of LFs
\* yielded, column is 1 plus the number of characters yielded since the last
\* LF, and location.offset is the offset of the source; on "ab\r\ncd" the
\* reader goes through (0,1,1), (1,1,2), (2,1,3), (4,2,1), (5,2,2), (6,2,3).
C13_PositionTracking ==
    (Reading /\ FailedEats = 0) =>
       /\ Reader.location.line = LINE_INITIAL + Len(SelectSeq(Yielded, LAMBDA c : c = "LF"))
       /\ Reader.location.column = COLUMN_INITIAL + Len(Yielded) - LastNewline(Yielded)
       /\ Reader.location.offset = Reader.source.offset
       /\ Data = LineThenNewlineDosThenLine =>
             /\ \A k \in DOMAIN eaten : eaten[k].before = PositionTrace[k]
             /\ Reader.location = PositionTrace[Len(eaten) + 1]

C13_Witness ==
    /\ Ate /\ FailedEats = 0
    /\ Data = LineThenNewlineDosThenLine
    /\ Yielded = <<"a", "b", "LF", "c", "d">>
    /\ Reader.location = Loc(6, 2, 3)

C15_BufferingErrors ==
    Reading =>
       /\ last.op = "enable_buffering" =>
             IF last.before.buffer.is_some THEN last.result = Err(BufferingAlreadyEnabled)
             ELSE last.result = Ok(Unit) /\ is_buffering_enabled(Reader)
       /\ last.op = "disable_buffering" =>
             IF ~last.before.buffer.is_some THEN last.result = Err(BufferingAlreadyDisabled)
             ELSE last.result = Ok(Unit) /\ ~is_buffering_enabled(Reader)
       /\ last.op = "clear_buffer" =>
             IF ~last.before.buffer.is_some THEN last.result = Err(BufferingNeedsToBeEnabled)
             ELSE last.result = Ok(Unit) /\ is_buffering_enabled(Reader)
       /\ last.op = "pop_buffer" =>
             IF ~last.before.buffer.is_some THEN last.result = Err(BufferingNeedsToBeEnabled)
             ELSE last.result.ok /\ is_buffering_enabled(Reader)

C15_Witness ==
    /\ Reading /\ last.op = "disable_buffering"
    /\ ~last.before.buffer.is_some
    /\ last.result = Err(BufferingAlreadyDisabled)
    /\ Len(eaten) > 0

\* The number of characters that had been yielded when the buffer was last
\* reset.
ResetAt == SelectSeq(log, LAMBDA e : e.kind = "buffer_reset")[1].eaten_at

\* C16: while buffering is enabled the buffer is the sequence of characters
\* yielded since the most recent enable_buffering, clear_buffer or pop_buffer;
\* pop_buffer on an enabled reader returns the buffer and leaves an empty
\* buffer with buffering enabled (so a pop right after a pop returns "").
C16_BufferContents ==
    Reading =>
       /\ is_buffering_enabled(Reader) =>
             /\ SelectSeq(log, LAMBDA e : e.kind = "buffer_reset") # <<>>
             /\ Reader.buffer.value = EatenChars(ResetAt + 1, Len(eaten))
       /\ (last.op = "pop_buffer" /\ last.before.buffer.is_some) =>
             /\ last.result = Ok(last.before.buffer.value)
             /\ Reader.buffer = Some(<<>>)
             /\ pop_buffer(Reader).result = Ok(<<>>)

C16_Witness ==
    /\ Reading /\ last.op = "pop_buffer"
    /\ Data = <<"a", "b", "c">>
    /\ last.result = Ok(<<"b", "c">>)
    /\ Reader.buffer = Some(<<>>)

---------------------------------------------------------------------------
(* C17..C20: the DFSA *)

\* The last call was add_transition on the DFSA used on its own.
AddedTransition == phase = "dfsa" /\ last.op = "add_transition"

\* State id of before has a transition on element e: with add_transition the
\* only operation that writes transitions, an earlier
\* add_transition(id, e, _) succeeded.
HasTransition(d, id, e) == is_id_in_bounds(d, id) /\ e \in DOMAIN d.states[id + 1].transitions

\* C17: right after add_transition(s, e, d) succeeded try_get_transition(s, e)
\* returns d, and an add_transition(s, e, d') for an (s, e) that has a
\* transition fails with TransitionAlreadyExists for every in-range d'.
C17_Determinism ==
    AddedTransition =>
       /\ last.result.ok
             => try_get_transition(the_dfsa, last.from_id, last.on_element) = Ok(last.to_id)
       /\ (HasTransition(last.before, last.from_id, last.on_element)
              /\ is_id_in_bounds(last.before, last.to_id))
             => last.result = Err(TransitionAlreadyExists)

C17_Witness ==
    /\ AddedTransition
    /\ HasTransition(last.before, last.from_id, last.on_element)
    /\ is_id_in_bounds(last.before, last.to_id)
    /\ last.before.states[last.from_id + 1].transitions[last.on_element] # last.to_id
    /\ last.result = Err(TransitionAlreadyExists)

\* C18: an add_transition(s, e, d') rejected with TransitionAlreadyExists
\* leaves the DFSA as it was: try_get_transition(s, e) returns what it
\* returned before, and no state or other transition changes.
C18_RejectedDuplicateKeepsTable ==
    (AddedTransition /\ last.result = Err(TransitionAlreadyExists)) =>
       /\ try_get_transition(the_dfsa, last.from_id, last.on_element)
             = try_get_transition(last.before, last.from_id, last.on_element)
       /\ the_dfsa = last.before

\* C19: add_transition with an out-of-range to_id fails with
\* OutOfRangeId(to_id), also when from_id is out of range too; with an
\* in-range to_id and an out-of-range from_id it fails with
\* OutOfRangeId(from_id); in both cases the DFSA is unchanged.
C19_OutOfRange ==
    AddedTransition =>
       /\ ~is_id_in_bounds(last.before, last.to_id)
             => last.result = Err(OutOfRangeId(last.to_id)) /\ the_dfsa = last.before
       /\ (is_id_in_bounds(last.before, last.to_id) /\ ~is_id_in_bounds(last.before, last.from_id))
             => last.result = Err(OutOfRangeId(last.from_id)) /\ the_dfsa = last.before

C19_Witness ==
    /\ AddedTransition
    /\ last.before.states # <<>>
    /\ ~is_id_in_bounds(last.before, last.to_id)
    /\ ~is_id_in_bounds(last.before, last.from_id)
    /\ last.from_id # last.to_id
    /\ last.result = Err(OutOfRangeId(last.to_id))

\* The transitions of a DFSA as triples.
Transitions(d) ==
    UNION {{<<i - 1, e, d.states[i].transitions[e]>> : e \in DOMAIN d.states[i].transitions} :
              i \in DOMAIN d.states}

\* Every destination and the start id name a state of d.
WellFormed(d) ==
    /\ \A t \in Transitions(d) : is_id_in_bounds(d, t[3])
    /\ d.start_id.is_some => is_id_in_bounds(d, d.start_id.value)

\* C20: after any sequence of calls every transition destination and the
\* start id name an existing state, add_state and add_state_with_action
\* return the number of states that existed before, and no call removes a
\* state or a transition.
C20_Structure ==
    phase = "dfsa" =>
       /\ WellFormed(the_dfsa)
       /\ last.op \in {"add_state", "add_state_with_action"}
             => /\ last.id = Len(last.before.states)
                /\ Len(the_dfsa.states) = last.id + 1
       /\ last.op # "new" =>
             /\ Len(the_dfsa.states) >= Len(last.before.states)
             /\ Transitions(last.before) \subseteq Transitions(the_dfsa)

---------------------------------------------------------------------------
(* C21..C22: the DFSA executor *)

Executing == phase = "executor" /\ the_executor.is_some

Cursor == the_executor.value.current_id

\* C21: a successful step(e) moves the cursor to the destination the DFSA
\* stores for (cursor, e); a failed step returns NoSuchTransition and leaves
\* the executor as it was, so current_action is the same before and after;
\* reset puts the cursor on the start state of the DFSA from any state.
C21_Step ==
    Executing =>
       /\ (last.op = "step" /\ last.result.ok) =>
             /\ last.element \in DOMAIN the_dfsa.states[last.before.current_id + 1].transitions
             /\ Cursor = the_dfsa.states[last.before.current_id + 1].transitions[last.element]
       /\ (last.op = "step" /\ ~last.result.ok) =>
             /\ last.result = Err(NoSuchTransition)
             /\ last.element \notin DOMAIN the_dfsa.states[last.before.current_id + 1].transitions
             /\ the_executor.value = last.before
             /\ current_action(the_dfsa, the_executor.value)
                   = current_action(the_dfsa, last.before)
       /\ last.op = "reset" => Cursor = the_dfsa.start_id.value

\* A failed step from a state that has an action and is not the start state.
C21_Witness ==
    /\ Executing
    /\ last.op = "step"
    /\ last.result = Err(NoSuchTransition)
    /\ last.before.current_id # last.before.start_id
    /\ current_action(the_dfsa, the_executor.value).is_some

\* C22: is_at_start() returns true exactly when no step has succeeded
\* since construction or the last reset.
C22_IsAtStart ==
    (Executing /\ last.op = "is_at_start") => (last.result <=> ~last.stepped)

---------------------------------------------------------------------------
(* C23: add_trigger *)

AddedTrigger == last.op = "add_trigger"

\* C23: add_trigger(prefix, callback) returns Err(DuplicateTrigger(prefix))
\* exactly when prefix is a registered trigger and Ok otherwise, whatever
\* proper prefixes or extensions of it are registered; an accepted callback
\* is the action of the state its prefix leads to and the other triggers
\* keep theirs; a rejected add leaves the lexer as it was.
C23_DuplicateTrigger ==
    AddedTrigger =>
       /\ last.result = (IF last.prefix \in Registered(last.before)
                         THEN Err(DuplicateTrigger(last.prefix)) ELSE Ok(Unit))
       /\ last.result.ok =>
             /\ ActionOf(lexer, last.prefix) = Some(last.callback)
             /\ Registered(lexer) = Registered(last.before) \cup {last.prefix}
             /\ \A p \in Registered(last.before) : ActionOf(lexer, p) = ActionOf(last.before, p)
       /\ ~last.result.ok => lexer = last.before

\* A trigger accepted although a proper extension of it is registered.
C23_Witness ==
    /\ AddedTrigger
    /\ last.result.ok
    /\ \E p \in Registered(last.before) : p # last.prefix /\ IsPrefix(last.prefix, p)
    /\ \E p \in Registered(last.before) : p # last.prefix /\ IsPrefix(p, last.prefix)

---------------------------------------------------------------------------
(* C24..C25: the token reader *)

Reading_tokens == phase \in {"parser", "panicked"} /\ the_token_reader.is_some

TokenReader == the_token_reader.value

\* The last call was op on the token reader and returned.
TokenReaderDid(op) == Reading_tokens /\ last.op = op

\* The token at stream position n of the upstream iterator.
Upstream(tr, n) == tr.iter.data[n + 1]

\* C24: seek(n) with n <= offset() sets the offset to n and changes nothing
\* else; seek(n) with n > offset() panics and leaves the reader as it was;
\* the buffer always holds stream positions 0, 1, .. in order, and an
\* eat_next at a buffered position returns the token of that position, the
\* one every earlier call at the position returned, with the buffer and the
\* upstream iterator untouched.
C24_Rewind ==
    Reading_tokens =>
       /\ TokenReader.tokens = SubSeq(TokenReader.iter.data, 1, Len(TokenReader.tokens))
       /\ last.op = "seek" =>
             /\ last.panicked <=> last.n > last.before.offset
             /\ ~last.panicked => TokenReader = [last.before EXCEPT !.offset = last.n]
             /\ last.panicked => TokenReader = last.before
       /\ (last.op = "eat_next" /\ last.result.is_some) =>
             last.result.value = Upstream(last.before, last.before.offset)
       /\ (last.op = "eat_next" /\ last.before.offset < Len(last.before.tokens)) =>
             /\ last.result.is_some
             /\ TokenReader.tokens = last.before.tokens
             /\ TokenReader.iter = last.before.iter

\* An eat_next two positions or more behind the end of the buffer: the
\* reader was rewound over this position and the next one.
C24_Witness ==
    /\ TokenReaderDid("eat_next")
    /\ last.before.offset + 2 <= Len(last.before.tokens)
    /\ last.result.is_some
    /\ TokenReader.offset = last.before.offset + 1

\* C25: an eat_next that returns a token adds one to offset() and returns
\* what peek_next would have returned, the upstream token of that position;
\* eat_next returning None, peek_next and has_more leave offset() as it was;
\* has_more() is true exactly when the next eat_next returns a token.
C25_Cursor ==
    Reading_tokens =>
       /\ (last.op = "eat_next" /\ last.result.is_some) =>
             /\ TokenReader_offset(TokenReader) = TokenReader_offset(last.before) + 1
             /\ last.result = TokenReader_peek_next(last.before).result
             /\ last.result.value = Upstream(last.before, TokenReader_offset(last.before))
       /\ (last.op = "eat_next" /\ ~last.result.is_some) =>
             TokenReader_offset(TokenReader) = TokenReader_offset(last.before)
       /\ last.op \in {"peek_next", "has_more"} =>
             TokenReader_offset(TokenReader) = TokenReader_offset(last.before)
       /\ last.op = "has_more" =>
             (last.result <=> TokenReader_eat_next(TokenReader).result.is_some)

\* An eat_next at the end of the source, after tokens were eaten.
C25_Witness ==
    /\ TokenReaderDid("eat_next")
    /\ ~last.result.is_some
    /\ last.before.offset >= 2
    /\ TokenReader.offset = last.before.offset

---------------------------------------------------------------------------
(* C26..C30: the parsers *)

\* The last call was parse on a parser of the given type, and it returned.
Parsed(type) ==
    Reading_tokens /\ last.op = "parse" /\ ~last.panicked /\ last.parser.type = type

\* The reader had a token at its offset when the last call was made.
HadNext == last.before.offset < Len(last.before.iter.data)

\* That token.
NextBefore == Upstream(last.before, last.before.offset)

\* C26: a terminal parser returns its action applied to the kind-erased
\* copy (same location and text) of a next token of its kind,
\* UnexpectedToken{{kind}, the full token} on a next token of another kind
\* and UnexpectedEndOfSource{{kind}} on an exhausted reader; its
\* expected_tokens() is {kind}.
C26_Terminal ==
    /\ Parsed("token") =>
          last.result =
             (IF ~HadNext
              THEN Err([kind |-> "UnexpectedEndOfSource",
                        expected_token_kinds |-> {last.parser.token_kind}])
              ELSE IF NextBefore.kind = last.parser.token_kind
              THEN Ok([label |-> last.parser.action,
                       token |-> [location |-> NextBefore.location, text |-> NextBefore.text,
                                  kind |-> Unit],
                       children |-> <<>>])
              ELSE Err([kind |-> "UnexpectedToken",
                        expected_token_kinds |-> {last.parser.token_kind},
                        actual_token |-> NextBefore]))
    /\ (Reading_tokens /\ last.op = "expected_tokens" /\ last.parser.type = "token") =>
          last.result = Ok({last.parser.token_kind})

\* A terminal parser met a token of another kind after the first token.
C26_Witness ==
    /\ Parsed("token")
    /\ HadNext
    /\ last.before.offset >= 1
    /\ NextBefore.kind # last.parser.token_kind
    /\ ~last.result.ok

RECURSIVE FirstFailure(_, _, _)

FirstFailureStep(sequence, i, c) ==
    IF c.result.ok THEN FirstFailure(sequence, c.token_reader, i + 1)
    ELSE [failed |-> TRUE, k |-> i, token_reader |-> c.token_reader, result |-> c.result]

\* The sub-parsers of sequence run in order from reader tr, from the i-th
\* on, each from where the one before it stopped: the first that fails, the
\* error it returns and the reader it leaves.
FirstFailure(sequence, tr, i) ==
    IF i > Len(sequence) THEN [failed |-> FALSE]
    ELSE FirstFailureStep(sequence, i, parse(sequence[i], tr))

\* The kinds of the upstream tokens from stream position n on.
KindsFrom(tr, n) == [i \in 1..(Len(tr.iter.data) - n) |-> tr.iter.data[n + i].kind]

SequenceAB == ParserSequential(<<ParserA, ParserB>>, "AB")

SequentialFailedAs(f) ==
    IF f.failed
    THEN ~last.result.ok /\ last.result = f.result /\ TokenReader = f.token_reader
    ELSE last.result.ok

\* C27: a sequence fails exactly when one of its sub-parsers, run in order,
\* fails; it then returns the error of the first one that fails and leaves
\* the reader where that one left it (no later sub-parser ran).  The
\* sequence of terminals A, B on tokens A, A returns
\* UnexpectedToken{{B}, the second A}, and on B, B
\* UnexpectedToken{{A}, the first B}.
C27_SequenceFailure ==
    Parsed("sequential") =>
       /\ SequentialFailedAs(FirstFailure(last.parser.sequence, last.before, 1))
       /\ (last.parser = SequenceAB /\ KindsFrom(last.before, last.before.offset) = <<"A", "A">>) =>
             last.result = Err([kind |-> "UnexpectedToken", expected_token_kinds |-> {"B"},
                                actual_token |-> Upstream(last.before, last.before.offset + 1)])
       /\ (last.parser = SequenceAB /\ KindsFrom(last.before, last.before.offset) = <<"B", "B">>) =>
             last.result = Err([kind |-> "UnexpectedToken", expected_token_kinds |-> {"A"},
                                actual_token |-> NextBefore])

\* The sequence A, B failed on the second of the tokens A, A.
C27_Witness ==
    /\ Parsed("sequential")
    /\ last.parser = SequenceAB
    /\ last.before.offset = 0
    /\ KindsFrom(last.before, 0) = <<"A", "A">>
    /\ ~last.result.ok
    /\ last.result.err.actual_token = TokenAt(1, "A")

RECURSIVE ChildrenInOrder(_, _, _)

ChildrenInOrderStep(sequence, i, c) ==
    <<c.result.value>> \o ChildrenInOrder(sequence, c.token_reader, i + 1)

\* The trees of the sub-parsers of sequence from the i-th on, each run from
\* where the one before it stopped, when they all succeed.
ChildrenInOrder(sequence, tr, i) ==
    IF i > Len(sequence) THEN <<>>
    ELSE ChildrenInOrderStep(sequence, i, parse(sequence[i], tr))

\* C28: expected_tokens() of a sequence is expected_tokens() of its first
\* sub-parser; a successful sequence returns its action applied to the
\* trees of all its sub-parsers in their order and to the token of the
\* first of these trees.
C28_SequenceSuccess ==
    /\ (Reading_tokens /\ last.op = "expected_tokens" /\ last.parser.type = "sequential") =>
          last.result = expected_tokens(last.parser.sequence[1])
    /\ (Parsed("sequential") /\ last.result.ok) =>
          /\ last.result.value.label = last.parser.action
          /\ Len(last.result.value.children) = Len(last.parser.sequence)
          /\ last.result.value.children = ChildrenInOrder(last.parser.sequence, last.before, 1)
          /\ last.result.value.token = last.result.value.children[1].token

\* A successful sequence whose first sub-parser is a sequence itself.
C28_Witness ==
    /\ Parsed("sequential")
    /\ last.result.ok
    /\ Len(last.result.value.children) >= 2
    /\ last.parser.sequence[1].type = "sequential"
    /\ last.result.value.token = last.result.value.children[1].children[1].token
    /\ last.result.value.token # last.result.value.children[2].token

\* C29: when every alternative of a choice fails, the reader's offset after
\* the choice returned its error is the offset it had when the choice was
\* entered, however many tokens the alternatives consumed before failing.
C29_ChoiceBacktracks ==
    (Parsed("choice") /\ ~last.result.ok) =>
       TokenReader_offset(TokenReader) = TokenReader_offset(last.before)

\* A failed choice with a choice among its alternatives, entered after the
\* first token with nothing buffered ahead, whose alternatives pulled two
\* tokens or more.
C29_Witness ==
    /\ Parsed("choice")
    /\ ~last.result.ok
    /\ last.parser.choices[1].type = "choice"
    /\ last.before.offset >= 1
    /\ Len(last.before.tokens) = last.before.offset
    /\ Len(TokenReader.tokens) >= last.before.offset + 2
    /\ TokenReader.offset = last.before.offset

\* The union of expected_tokens() of the alternatives.
ExpectedByAlternatives(p) ==
    UNION {expected_tokens(p.choices[i]).value : i \in DOMAIN p.choices}

\* C30: a choice whose alternatives all fail returns UnexpectedToken with
\* the token at the offset the choice was entered at, or
\* UnexpectedEndOfSource when there is no token there, both with the union
\* of the alternatives' expected_tokens() and nothing of their errors.
C30_ChoiceError ==
    (Parsed("choice") /\ ~last.result.ok) =>
       last.result =
          (IF HadNext
           THEN Err([kind |-> "UnexpectedToken",
                     expected_token_kinds |-> ExpectedByAlternatives(last.parser),
                     actual_token |-> NextBefore])
           ELSE Err([kind |-> "UnexpectedEndOfSource",
                     expected_token_kinds |-> ExpectedByAlternatives(last.parser)]))

\* A failed choice of two alternatives expecting different kinds whose
\* first alternative, a sequence, failed on a later token than the one the
\* choice reports.
C30_Witness ==
    /\ Parsed("choice")
    /\ ~last.result.ok
    /\ HadNext
    /\ Len(last.parser.choices) = 2
    /\ last.parser.choices[1].type # "token"
    /\ Len(TokenReader.tokens) >= last.before.offset + 2
    /\ Cardinality(last.result.err.expected_token_kinds) = 2
    /\ last.result.err.actual_token = NextBefore

---------------------------------------------------------------------------
(* C31: ordered alternation *)

RECURSIVE FirstSuccess(_, _, _, _)

Longer(m, n) == IF m >= n THEN m ELSE n

FirstSuccessStep(choices, tr, i, buffered, c) ==
    IF c.result.ok
    THEN [found |-> TRUE, k |-> i, result |-> c.result, offset |-> c.token_reader.offset,
          buffered |-> Longer(buffered, Len(c.token_reader.tokens))]
    ELSE FirstSuccess(choices, tr, i + 1, Longer(buffered, Len(c.token_reader.tokens)))

\* The alternatives from the i-th on, each run on the reader tr the choice
\* was entered with: the first that succeeds, its tree, the offset it
\* leaves, and the longest buffer the alternatives up to it leave.
FirstSuccess(choices, tr, i, buffered) ==
    IF i > Len(choices) THEN [found |-> FALSE]
    ELSE FirstSuccessStep(choices, tr, i, buffered, parse(choices[i], tr))

ChoiceSucceededAs(f) ==
    IF f.found
    THEN /\ last.result = f.result
         /\ TokenReader.offset = f.offset
         /\ Len(TokenReader.tokens) = f.buffered
    ELSE ~last.result.ok

ChoiceAOrAB == ParserChoice(<<ParserA, ParserSequential(<<ParserA, ParserB>>, "AB")>>)

\* C31: a choice succeeds exactly when one of its alternatives succeeds
\* from the offset the choice was entered at; it returns the tree of the
\* first such alternative in declaration order and leaves the reader where
\* that alternative leaves it, with no token pulled by a later alternative.
C31_OrderedAlternation ==
    Parsed("choice") =>
       ChoiceSucceededAs(FirstSuccess(last.parser.choices, last.before, 1,
                                      Len(last.before.tokens)))

\* The choice of A and of the sequence A, B on tokens A, B: both
\* alternatives succeed, the first is returned.
C31_Witness ==
    /\ Parsed("choice")
    /\ last.parser = ChoiceAOrAB
    /\ Len(KindsFrom(last.before, last.before.offset)) >= 2
    /\ SubSeq(KindsFrom(last.before, last.before.offset), 1, 2) = <<"A", "B">>
    /\ last.result.ok
    /\ last.result.value.label = "A"
    /\ TokenReader.offset = last.before.offset + 1

---------------------------------------------------------------------------
(* C32, C40: the builders *)

Built == phase = "builder" /\ last.op = "build"

\* The fields a builder of the given type requires, in the order build()
\* asks for them.
Required(type) ==
    IF type = "token" THEN <<"token_kind", "action">>
    ELSE IF type = "sequential" THEN <<"sequence", "action">>
    ELSE <<"choices">>

\* The first required field no setter was called for, None when all were.
FirstMissing(type, supplied) ==
    IF \A i \in DOMAIN Required(type) : Required(type)[i] \in supplied THEN None
    ELSE Some(Required(type)[CHOOSE i \in DOMAIN Required(type) :
                                /\ Required(type)[i] \notin supplied
                                /\ \A j \in 1..(i - 1) : Required(type)[j] \in supplied])

\* C32: build() succeeds exactly when every required field was supplied
\* and returns RequiredParserFieldMissing naming a field that was not
\* supplied otherwise.
C32_BuildersValidate ==
    Built =>
       /\ last.result.ok <=> ~FirstMissing(the_builder.value.type, last.supplied).is_some
       /\ ~last.result.ok =>
             /\ last.result.err.kind = "RequiredParserFieldMissing"
             /\ last.result.err.name \in
                   {Required(the_builder.value.type)[i] : i \in DOMAIN Required(the_builder.value.type)}
                      \ last.supplied

\* C40: a ParserSequentialBuilder whose build() failed with
\* RequiredParserFieldMissing("action") still holds the sub-parsers it was
\* given.
C40_FailedBuildKeepsSequence ==
    (Built /\ the_builder.value.type = "sequential"
           /\ last.result = Err(RequiredParserFieldMissing("action"))) =>
       the_builder.value.sequence = last.given

---------------------------------------------------------------------------
(* C33: termination of iteration *)

\* Buffering has just been enabled on the reader of a driver.
IterationBegun == phase = "lex" /\ last.op = "enable_buffering" /\ last.result.ok

\* C33: with the default error handler, a driver over a finite source on
\* which next() is called repeatedly eventually returns None.
C33_IterationTerminates == IterationBegun ~> IterationEnded

\* next() has returned None after it had returned a token, skipped a trigger
\* and recovered from an unexpected character.
C33_Witness ==
    /\ phase = "lex" /\ IterationEnded
    /\ \E i, j, k \in DOMAIN log :
          /\ log[i].kind = "token" /\ log[j].kind = "skipped" /\ log[k].kind = "discarded"

---------------------------------------------------------------------------
(* C34: lex_next and its precondition *)

\* C34: after lex_next has returned Ok, UnexpectedCharacter or
\* UnexpectedEndOfSource, buffering is enabled and the buffer is empty, so
\* that lex_next can be called again.
C34_LexNextPrecondition ==
    (phase = "lex" /\ Returned("lex_next")
       /\ (last.result.ok
             \/ last.result.err.kind \in {"UnexpectedCharacter", "UnexpectedEndOfSource"}))
    => /\ is_buffering_enabled(source_reader.value)
       /\ is_buffer_empty(source_reader.value)

---------------------------------------------------------------------------
(* C35, C36: the reader's buffering state and the offsets *)

\* C35: when clear_buffer or pop_buffer fails with BufferingNeedsToBeEnabled
\* on a reader whose buffering is disabled, buffering is still disabled
\* afterwards.
C35_FailedBufferOperation ==
    (Reading /\ last.op \in {"clear_buffer", "pop_buffer"}
       /\ last.result = Err(BufferingNeedsToBeEnabled))
    => /\ ~is_buffering_enabled(last.before)
       /\ ~is_buffering_enabled(Reader)

\* C36: the offset of the string-backed source is the number of characters
\* taken from it, and the reader's location.offset is equal to it.
C36_OffsetCountsConsumed ==
    Reading =>
       /\ Reader.source.offset = Reader.source.iter
       /\ Reader.location.offset = Reader.source.offset

---------------------------------------------------------------------------
(* C37: the buffer of the token reader *)

\* The number of tokens reader tr has pulled from its upstream iterator.
Pulled(tr) == tr.iter.next - 1

\* C37: the offset is between 0 and the number of buffered tokens; the
\* buffer is the first tokens of the upstream iterator in their order, each
\* pulled once; seek, has_more, peek_next and eat_next pull at most one
\* token, and only when the cursor is at the end of the buffer.
C37_BufferInvariant ==
    Reading_tokens =>
       /\ TokenReader.offset \in 0..Len(TokenReader.tokens)
       /\ Pulled(TokenReader) = Len(TokenReader.tokens)
       /\ \A i \in DOMAIN TokenReader.tokens : TokenReader.tokens[i] = Upstream(TokenReader, i - 1)
       /\ last.op \in {"seek", "has_more", "peek_next", "eat_next"} =>
             /\ Pulled(TokenReader) - Pulled(last.before) \in {0, 1}
             /\ Pulled(TokenReader) # Pulled(last.before) =>
                   last.before.offset = Len(last.before.tokens)
             /\ SubSeq(TokenReader.tokens, 1, Len(last.before.tokens)) = last.before.tokens

\* A peek_next at the end of a buffer of two tokens or more pulled the next
\* token.
C37_Witness ==
    /\ TokenReaderDid("peek_next")
    /\ last.before.offset = Len(last.before.tokens)
    /\ last.before.offset >= 2
    /\ Pulled(TokenReader) = Pulled(last.before) + 1
    /\ Len(TokenReader.tokens) = last.before.offset + 1

---------------------------------------------------------------------------
(* C38: what a terminal parser consumes *)

\* C38: a terminal parser on a reader with a next token advances the offset
\* by exactly 1, when it returns Ok and when it returns UnexpectedToken; on
\* an exhausted reader it leaves the offset unchanged.
C38_TerminalConsumesOne ==
    Parsed("token") =>
       /\ (HadNext /\ last.result.ok) => TokenReader.offset = last.before.offset + 1
       /\ (HadNext /\ ~last.result.ok) =>
             /\ last.result.err.kind = "UnexpectedToken"
             /\ TokenReader.offset = last.before.offset + 1
       /\ ~HadNext =>
             /\ last.result = Err(ParsingError_UnexpectedEndOfSource({last.parser.token_kind}))
             /\ TokenReader.offset = last.before.offset

\* A terminal parser returned UnexpectedToken for a buffered token it had
\* been rewound to, and the offset is past that token.
C38_Witness ==
    /\ Parsed("token")
    /\ HadNext
    /\ last.before.offset < Len(last.before.tokens)
    /\ ~last.result.ok
    /\ last.result.err.kind = "UnexpectedToken"
    /\ last.result.err.actual_token = NextBefore
    /\ TokenReader.offset = last.before.offset + 1

---------------------------------------------------------------------------
(* C39: a failed sequence does not rewind *)

AllTerminals(sequence) == \A i \in DOMAIN sequence : sequence[i].type = "token"

\* The offset that the first failing sub-parser of the last sequence left.
OffsetAtFailure == FirstFailure(last.parser.sequence, last.before, 1).token_reader.offset

\* The position in the sequence of that sub-parser.
FailedAt == FirstFailure(last.parser.sequence, last.before, 1).k

\* C39: a failed sequence leaves the offset where its failing sub-parser
\* left it; in a sequence of terminals whose k-th fails that is k tokens
\* past the entry offset on UnexpectedToken (the offending token is eaten)
\* and k - 1 on UnexpectedEndOfSource; a failed choice leaves the offset it
\* was entered at.
C39_SequenceNeverRewinds ==
    /\ (Parsed("sequential") /\ ~last.result.ok) =>
          /\ TokenReader.offset = OffsetAtFailure
          /\ TokenReader.offset >= last.before.offset
          /\ AllTerminals(last.parser.sequence) =>
                TokenReader.offset =
                   last.before.offset +
                      (IF last.result.err.kind = "UnexpectedToken"
                       THEN FailedAt ELSE FailedAt - 1)
    /\ (Parsed("choice") /\ ~last.result.ok) => TokenReader.offset = last.before.offset

\* The sequence A, B, entered after the first token, ate an A and failed on
\* the token after it, which it ate too.
C39_Witness ==
    /\ Parsed("sequential")
    /\ last.parser = SequenceAB
    /\ last.before.offset = 1
    /\ ~last.result.ok
    /\ FailedAt = 2
    /\ last.result.err.kind = "UnexpectedToken"
    /\ TokenReader.offset = 3

====
